---- MODULE Spec2Model ----
(***************************************************************************)
(* GitGallery sync engine: the job queue (JobQueue), the sync orchestrator *)
(* (processUploadBatch, deleteRepoFile, runSyncOnce, cancelActiveSync),    *)
(* the local durable index, the auto-sync blocklist, the sharded remote    *)
(* metadata store, the cloud cache, the path functions and the emitters,   *)
(* as state machines translated from the TypeScript.                       *)
(*                                                                         *)
(* The module holds several specifications over one set of variables:      *)
(*   SpecQueue     the promise chain of JobQueue.enqueue                   *)
(*   FairSpecQueue SpecQueue with the event loop's microtask fairness      *)
(*   SpecSync      the orchestrator with its collaborators                 *)
(*   SpecStore     the metadata store and the contents API on their own    *)
(*   SpecCache     the cloud cache: fetches beside an eviction pass        *)
(*   SpecTag       SpecCache with entries whose tag changes                *)
(*   SpecVerify    uploads, reconciliation and the full reset              *)
(*   SpecFingerprint, SpecPath  the pure functions of utils.ts             *)
(*   SpecMigration the local store's database across launches              *)
(*   SpecEmitter   SimpleEmitter and EventEmitter                          *)
(*   SpecAutoDelete  SpecSync with auto-delete after sync switched on      *)
(*   SpecLock      acquireLock and release of the cache as a promise chain *)
(*   FairSpecLock  SpecLock with the event loop's fairness                 *)
(*   SpecLoad      loadMetaIndex calls that overlap                        *)
(*   SpecEntryKey  lock keys and directories of cache entries              *)
(* A specification leaves the variables of the other parts at their        *)
(* initial values.                                                         *)
(***************************************************************************)
EXTENDS Integers, Sequences, FiniteSets, TLC

(***************************************************************************)
(* Bounds of the model.                                                    *)
(***************************************************************************)
MaxJobs == 3

\* device assets in the media library
MaxAssets == 3

\* longest explicit list handed to runSyncForAssets
MaxBatchLen == 2

\* operations (runSyncOnce, runSyncForAssets, deleteRepoFile) started in a run
MaxOps == 2

\* injected failures (rejected requests, unreadable assets) in a run
MaxFaults == 2

\* assets uploaded by an earlier session of the app
MaxEarlier == 1

\* upload batches waiting in the queue behind the running one
MaxPending == 1

\* calls made on the metadata store and the contents API in a run
MaxStoreOps == 4

\* rejected requests injected in a run of the store
MaxStoreFaults == 1

\* uploads, restarts, foreign deletes and reconciliations in a run
MaxVerifyOps == 5

\* the preload target of the runs of the reconciliation: DEFAULT_PRELOAD_TARGET
\* (450 entries) scaled to a repository of MaxAssets entries
SmallPreloadTarget == 2

\* the last day of a run of the store (the first is day 2)
MaxDay == 3

\* fingerprints with a directory in the cloud cache of the repository
MaxEntries == 3

\* ensurePreviewUri / ensureOriginalUri calls that can be in flight together
MaxCallers == 2

\* ensurePreviewUri / ensureOriginalUri calls made in a run of the cache
MaxFetches == 2

\* the clock of the cache when the app is launched, and the last tick of a run
FirstTick == 7

MaxTick == 8

\* versions of a metadata entry (buildTag) a cached file can stem from
MaxTags == 2

VARIABLES
  \* ---- JobQueue (androidDownloads.ts 99-115) ----
  qjobs,        \* one record per enqueue call, in call order
  current,      \* JobQueue.current: 0 is the initial Promise.resolve(),
                \* k the promise wrapped.catch(...) made by the k-th enqueue
  size,         \* JobQueue.size
  startOrder,   \* history: the jobs in the order their function was invoked
  \* ---- device and clock ----
  creationTime, \* asset.creationTime of each device asset (a day number, 0: none)
  now,          \* Date.now(), as a day number
  \* ---- local durable index (part_004) ----
  assetsDb,       \* table assets: fingerprint -> row
  blocklistTable, \* table auto_sync_blocklist
  \* ---- orchestrator module state (types.ts 83-109) ----
  uploadIndexCache,
  autoSyncBlocklist,
  autoSyncBlocklistLoaded,
  syncStatus,
  lastCompletion,
  activeCancelToken, \* 0: null, else the id of the batch that owns the token
  metaReady,
  invalidations,  \* cacheInvalidatedEmitter.emit() calls so far
  \* ---- metadata store (metaIndex.ts 54-60) and the remote repository ----
  mcache,       \* cache, metaByFingerprint and the reverse indices
  remote,       \* media files, shard files and the manifest file on the branch
  \* ---- processes ----
  pendingJobs,  \* upload batches enqueued on the job queue, not yet started
  up,           \* the upload batch the queue is running (processUploadBatch)
  del,          \* a deleteRepoFile call in progress
  ops,          \* operations started so far
  faults,       \* failures injected so far
  \* ---- the metadata store and the contents API on their own ----
  shas,         \* the blob SHAs the store remembers: cache.manifestSha, each
                \* shard's sha, the sha of each manifest row, and the sha
                \* column of the manifest file on the branch
  blobs,        \* media files written with putFile: path -> content
  call,         \* history: the last call made on the store or the API
  \* ---- cloud cache (cloudCache.ts 24-25) and its directory ----
  disk,         \* entry directories of the repo: fingerprint -> content
  entryLocks,   \* per key, the chain of acquireLock calls: head holds the lock
  repoPruneTracker, \* Date.now() of the last eviction pass (0: no entry)
  fetches,      \* the withEntry calls in flight, one per caller
  pass,         \* the eviction pass (maybePruneRepo) and its local variables
  clock,        \* Date.now() of the cache, in ticks of ten days
  \* ---- pure functions (utils.ts): arguments and result of the last call ----
  input,
  output,
  \* ---- the SQLite file and the module state of the local store (part_004) ----
  legacyDb,     \* kv flag, table assets, and the legacy tables
  dbProc,       \* dbInstance / dbInitPromise, and the last openDatabase call
  \* ---- event emitters (part_003) ----
  listeners,    \* the subscriptions of an emitter, in registration order
  emitLog,      \* history: what the last emit delivered
  \* ---- promises of the cache's lock map and of the metadata loads ----
  promises,     \* entryLocks, the acquireLock calls and the microtask queue
  loads         \* concurrent ensureBaseState calls and the module state

queueVars == <<qjobs, current, size, startOrder>>

syncVars == <<creationTime, now, assetsDb, blocklistTable, uploadIndexCache,
              autoSyncBlocklist, autoSyncBlocklistLoaded, syncStatus,
              lastCompletion, activeCancelToken, metaReady, invalidations,
              mcache, remote, pendingJobs, up, del, ops, faults>>

storeVars == <<shas, blobs, call>>

cacheVars == <<disk, entryLocks, repoPruneTracker, fetches, pass, clock>>

utilVars == <<input, output, legacyDb, dbProc, listeners, emitLog, promises,
              loads>>

\* what the queue, and what the orchestrator, leaves alone
besideQueue == <<syncVars, storeVars, cacheVars, utilVars>>

besideSync == <<queueVars, storeVars, cacheVars, utilVars>>

vars == <<queueVars, syncVars, storeVars, cacheVars, utilVars>>

Max(a, b) == IF a >= b THEN a ELSE b

(***************************************************************************)
(* JobQueue.  A promise is [st, err]: err names the job whose rejection    *)
(* reason the promise carries (0: none).                                   *)
(***************************************************************************)
Pending == [st |-> "pending", err |-> 0]

Fulfilled == [st |-> "fulfilled", err |-> 0]

Rejected(k) == [st |-> "rejected", err |-> k]

Settled(p) == p.st # "pending"

\* private current = Promise.resolve(); size = 0
QueueInit ==
  /\ qjobs = << >>
  /\ current = 0
  /\ size = 0
  /\ startOrder = << >>

\* The promise an index stands for: this.current before any enqueue is resolved.
PromiseAt(idx) == IF idx = 0 THEN Fulfilled ELSE qjobs[idx].tail

ThenTargetStale(cur) == 0

\* this.current.then(...): the promise the new job is chained to is the
\* current tail of the chain.
ThenTarget(cur) == cur

ThenReadyUnchained(p) == TRUE

\* promise.then(cb): the reaction runs once the promise has settled.
ThenReady(p) == Settled(p)

CatchResultNoCatch(p) == p

\* wrapped.catch(() => {}): fulfilled whatever wrapped settled with.
CatchResult(p) == Fulfilled

\* enqueue(job): size += 1; wrapped = current.then(() => job());
\* current = wrapped.catch(() => {}); return wrapped.finally(...)
Enqueue ==
  /\ Len(qjobs) < MaxJobs
  /\ qjobs' = Append(qjobs, [phase   |-> "queued",
                             chained |-> ThenTarget(current),
                             wrapped |-> Pending,
                             tail    |-> Pending,
                             ret     |-> Pending])
  /\ current' = Len(qjobs) + 1
  /\ size' = size + 1
  /\ UNCHANGED startOrder
  /\ UNCHANGED besideQueue

\* The reaction of current.then(() => job()): on a fulfilled promise the job
\* function is invoked; a rejected promise passes its reason on to wrapped
\* and the job function is never called.
ThenCallback(k) ==
  /\ k \in 1..Len(qjobs)
  /\ qjobs[k].phase = "queued"
  /\ LET p == PromiseAt(qjobs[k].chained) IN
     /\ ThenReady(p)
     /\ IF p.st = "rejected"
        THEN /\ qjobs' = [qjobs EXCEPT ![k].phase = "skipped",
                                       ![k].wrapped = Rejected(p.err)]
             /\ UNCHANGED startOrder
        ELSE /\ qjobs' = [qjobs EXCEPT ![k].phase = "running"]
             /\ startOrder' = Append(startOrder, k)
  /\ UNCHANGED <<current, size>>
  /\ UNCHANGED besideQueue

\* The promise returned by job() settles; wrapped adopts its outcome.
JobSettles(k, ok) ==
  /\ k \in 1..Len(qjobs)
  /\ qjobs[k].phase = "running"
  /\ qjobs' = [qjobs EXCEPT ![k].phase = "settled",
                            ![k].wrapped = IF ok THEN Fulfilled ELSE Rejected(k)]
  /\ UNCHANGED <<current, size, startOrder>>
  /\ UNCHANGED besideQueue

\* The reaction of wrapped.catch(() => {}).
CatchCallback(k) ==
  /\ k \in 1..Len(qjobs)
  /\ qjobs[k].tail.st = "pending"
  /\ Settled(qjobs[k].wrapped)
  /\ qjobs' = [qjobs EXCEPT ![k].tail = CatchResult(qjobs[k].wrapped)]
  /\ UNCHANGED <<current, size, startOrder>>
  /\ UNCHANGED besideQueue

\* The reaction of wrapped.finally(() => { size = max(0, size - 1) }): the
\* returned promise settles as wrapped did.
FinallyCallback(k) ==
  /\ k \in 1..Len(qjobs)
  /\ qjobs[k].ret.st = "pending"
  /\ Settled(qjobs[k].wrapped)
  /\ size' = Max(0, size - 1)
  /\ qjobs' = [qjobs EXCEPT ![k].ret = qjobs[k].wrapped]
  /\ UNCHANGED <<current, startOrder>>
  /\ UNCHANGED besideQueue

QueueNext ==
  \/ Enqueue
  \/ \E k \in 1..MaxJobs : ThenCallback(k)
  \/ \E k \in 1..MaxJobs, ok \in BOOLEAN : JobSettles(k, ok)
  \/ \E k \in 1..MaxJobs : CatchCallback(k)
  \/ \E k \in 1..MaxJobs : FinallyCallback(k)

(***************************************************************************)
(* Data.  Timestamps are day numbers, 0 standing for a missing value;      *)
(* a bucket is the day number of its UTC date, 0 standing for "unknown".   *)
(***************************************************************************)
Assets == 1..MaxAssets

EmptyMap == [x \in {} |-> x]

MapPut(m, k, v) == (k :> v) @@ m

MapDel(m, k) == [x \in (DOMAIN m) \ {k} |-> m[x]]

\* asset.filename: distinct on the device
FileName(a) == a

\* (asset as any).fileSize ?? 0
FileSizeOf(a) == 0

\* makeFingerprint: `${filename}|${createdAt}|${fileSize}`
makeFingerprint(a) == <<FileName(a), creationTime[a], FileSizeOf(a)>>

\* determineRepoPath: gitgallery/images/<folder>/<file segment>; the folder is
\* one album, so the path is fixed by the file name.
determineRepoPath(a) == <<"gitgallery/images", FileName(a)>>

\* bucketFromTimestamp: a missing or zero timestamp is 'unknown'
bucketFromTimestamp(value) == IF value = 0 THEN 0 ELSE value

\* bucketFromFingerprint: the second '|' part, read as a timestamp
bucketFromFingerprint(fingerprint) == bucketFromTimestamp(fingerprint[2])

\* bucketFromRepoPath: only gitgallery/library/YYYY/MM/DD/ paths carry a date
bucketFromRepoPath(path) == IF path[1] = "gitgallery/library" THEN path[2] ELSE 0

\* resolveBucket: the first candidate that is not 'unknown'
resolveBucket(entry) ==
  LET c1 == bucketFromTimestamp(entry.createdAt)
      c2 == bucketFromTimestamp(entry.uploadedAt)
      c3 == bucketFromRepoPath(entry.repoPath)
      c4 == bucketFromFingerprint(entry.fingerprint)
  IN  IF c1 # 0 THEN c1 ELSE IF c2 # 0 THEN c2 ELSE IF c3 # 0 THEN c3 ELSE c4

(***************************************************************************)
(* Metadata store (metaIndex.ts).  mcache is                               *)
(*   present       cache !== null                                          *)
(*   manifest      cache.manifest.shards: bucket -> count                  *)
(*   shards        cache.shards: bucket -> [loaded, count, entries]        *)
(*   byFp          metaByFingerprint                                       *)
(*   fpBucket      fingerprintToBucket                                     *)
(*   bucketFps     bucketToFingerprints                                    *)
(*   pathFp        pathToFingerprint                                       *)
(*   fpPaths       fingerprintToPaths                                      *)
(* and remote is                                                           *)
(*   files         media paths present on the branch                       *)
(*   shards        bucket -> entries of the shard file (no key: no file)   *)
(*   manifest      [exists, shards: bucket -> count]                       *)
(* Each operator takes and returns the pair [c, r] it works on.            *)
(***************************************************************************)
NoCache == [present |-> FALSE, manifest |-> EmptyMap, shards |-> EmptyMap,
            byFp |-> EmptyMap, fpBucket |-> EmptyMap, bucketFps |-> EmptyMap,
            pathFp |-> EmptyMap, fpPaths |-> EmptyMap]

EmptyRemote == [files |-> {}, shards |-> EmptyMap,
                manifest |-> [exists |-> FALSE, shards |-> EmptyMap]]

\* removeEntryFromCache(fingerprint)
removeEntryFromCache(c, fp) ==
  LET hasB == fp \in DOMAIN c.fpBucket
      b    == IF hasB THEN c.fpBucket[fp] ELSE 0
      bf1  == IF hasB /\ b \in DOMAIN c.bucketFps
              THEN LET rest == c.bucketFps[b] \ {fp}
                   IN  IF rest = {} THEN MapDel(c.bucketFps, b)
                       ELSE MapPut(c.bucketFps, b, rest)
              ELSE c.bucketFps
      paths == IF fp \in DOMAIN c.fpPaths THEN c.fpPaths[fp] ELSE {}
  IN  [c EXCEPT !.byFp = MapDel(c.byFp, fp),
                !.bucketFps = bf1,
                !.fpBucket = MapDel(c.fpBucket, fp),
                !.pathFp = [p \in (DOMAIN c.pathFp) \ paths |-> c.pathFp[p]],
                !.fpPaths = MapDel(c.fpPaths, fp)]

RECURSIVE RemoveAllFromCache(_, _)
RemoveAllFromCache(c, fps) ==
  IF fps = {} THEN c
  ELSE LET fp == CHOOSE x \in fps : TRUE
       IN  RemoveAllFromCache(removeEntryFromCache(c, fp), fps \ {fp})

\* evictBucketEntries(bucket)
evictBucketEntries(c, b) ==
  IF b \in DOMAIN c.bucketFps THEN RemoveAllFromCache(c, c.bucketFps[b]) ELSE c

\* registerPaths(fingerprint, [repoPath, previewRepoPath]); previewRepoPath is
\* null for every entry this application writes.
registerPaths(c, fp, path) ==
  [c EXCEPT !.pathFp = MapPut(c.pathFp, path, fp),
            !.fpPaths = MapPut(c.fpPaths, fp, {path})]

RECURSIVE IngestEntries(_, _, _, _)
IngestEntries(c, b, entries, fps) ==
  IF fps = {} THEN c
  ELSE LET fp == CHOOSE x \in fps : TRUE
           c1 == [c EXCEPT !.byFp = MapPut(c.byFp, fp, entries[fp]),
                           !.fpBucket = MapPut(c.fpBucket, fp, b)]
       IN  IngestEntries(registerPaths(c1, fp, entries[fp].repoPath), b,
                         entries, fps \ {fp})

\* the end of ingestShardDocument: bucketToFingerprints.set(bucket, ...) or
\* .delete(bucket)
SetBucketFps(c, b, fps) ==
  [c EXCEPT !.bucketFps = IF fps # {} THEN MapPut(c.bucketFps, b, fps)
                          ELSE MapDel(c.bucketFps, b)]

\* ingestShardDocument(doc)
ingestShardDocument(c, b, entries) ==
  SetBucketFps(IngestEntries(evictBucketEntries(c, b), b, entries,
                             DOMAIN entries),
               b, DOMAIN entries)

markManifestEntryStale(c, b, shard) == c

\* markManifestEntry(state, bucket, shard): the row takes the shard's count
markManifestEntry(c, b, shard) ==
  [c EXCEPT !.manifest = MapPut(c.manifest, b, shard.count)]

\* markManifestEntry(state, bucket, null)
dropManifestEntry(c, b) == [c EXCEPT !.manifest = MapDel(c.manifest, b)]

\* manifest.shards[bucket]?.count, 0 for a bucket without a row
ManifestCount(shards, b) == IF b \in DOMAIN shards THEN shards[b] ELSE 0

\* { ...entry, updatedAt: Date.now() } (lines 734-737)
StampEntry(entry, t) ==
  [f \in (DOMAIN entry) \cup {"updatedAt"} |->
     IF f = "updatedAt" THEN t ELSE entry[f]]

normalizeShardDropped(entries) == EmptyMap

\* toOptionalString(rawValue.repoPath) is null: an empty path (<< >>)
NoRepoPath == << >>

\* normalizeShardDocument, the entries: a value without a repoPath is
\* skipped, a value is stored under its own fingerprint, a missing updatedAt
\* becomes the time of the load
normalizeShardDocument(entries) ==
  LET kept == {k \in DOMAIN entries : entries[k].repoPath # NoRepoPath}
  IN  [fp \in {entries[k].fingerprint : k \in kept} |->
         LET raw == entries[CHOOSE k \in kept : entries[k].fingerprint = fp]
         IN  IF "updatedAt" \in DOMAIN raw THEN raw ELSE StampEntry(raw, now)]

\* fetchShardDocument: the decoded file, normalized; a missing file (404)
\* reads as an empty shard
fetchShardDocument(r, b) ==
  IF b \in DOMAIN r.shards THEN normalizeShardDocument(r.shards[b]) ELSE EmptyMap

RECURSIVE BootstrapShards(_, _, _)
\* buildManifestFromExistingShards: every shard file found under the meta
\* root is fetched, ingested and given a manifest row
BootstrapShards(c, r, bs) ==
  IF bs = {} THEN c
  ELSE LET b == CHOOSE x \in bs : TRUE
           entries == fetchShardDocument(r, b)
           shard == [loaded |-> TRUE, count |-> Cardinality(DOMAIN entries),
                     entries |-> entries]
           c1 == [c EXCEPT !.shards = MapPut(c.shards, b, shard),
                           !.manifest = MapPut(c.manifest, b, shard.count)]
       IN  BootstrapShards(ingestShardDocument(c1, b, entries), r, bs \ {b})

WriteBootstrappedLocal(c, r) == [c |-> c, r |-> r]

\* the writeManifest that ends the bootstrap
WriteBootstrapped(c, r) ==
  [c |-> c,
   r |-> [r EXCEPT !.manifest = [exists |-> TRUE, shards |-> c.manifest]]]

\* ensureBaseState: with no cache, the manifest is fetched; when it is absent
\* (404) it is rebuilt from the shard files and written back.
ensureBaseState(c, r) ==
  IF c.present THEN [c |-> c, r |-> r]
  ELSE IF r.manifest.exists
       THEN [c |-> [NoCache EXCEPT
                      !.present = TRUE,
                      !.manifest = r.manifest.shards,
                      !.shards = [b \in DOMAIN r.manifest.shards |->
                                    [loaded |-> FALSE,
                                     count |-> r.manifest.shards[b],
                                     entries |-> EmptyMap]]],
             r |-> r]
       ELSE WriteBootstrapped(
              BootstrapShards([NoCache EXCEPT !.present = TRUE], r,
                              DOMAIN r.shards), r)

\* ensureShardLoaded up to the fetch: the shard gets its cache entry
shardSlot(c, b) ==
  IF b \in DOMAIN c.shards THEN c
  ELSE [c EXCEPT !.shards = MapPut(c.shards, b,
                   [loaded |-> FALSE, count |-> 0, entries |-> EmptyMap])]

\* ensureShardLoaded once the document has been fetched (lines 585-600)
IngestFetched(c0, b, entries) ==
  LET shard == [loaded |-> TRUE, count |-> Cardinality(DOMAIN entries),
                entries |-> entries]
      c1 == [c0 EXCEPT !.shards[b] = shard]
  IN  markManifestEntry(
        IF shard.count > 0 THEN ingestShardDocument(c1, b, entries)
        ELSE evictBucketEntries(c1, b),
        b, shard)

\* ensureShardLoaded on the shard's cache entry: a loaded shard is left alone
LoadSlot(c0, r, b) ==
  IF c0.shards[b].loaded THEN c0
  ELSE IngestFetched(c0, b, fetchShardDocument(r, b))

\* ensureShardLoaded(bucket), the cache being present
ensureShardLoaded(c, r, b) == LoadSlot(shardSlot(c, b), r, b)

\* persistShard: the shard file takes the in-memory document
persistShard(r, b, entries) == [r EXCEPT !.shards = MapPut(r.shards, b, entries)]

\* deleteShardFile: nothing to delete when the shard has no known remote version
deleteShardFile(r, b) == [r EXCEPT !.shards = MapDel(r.shards, b)]

\* writeManifest
writeManifest(r, c) ==
  [r EXCEPT !.manifest = [exists |-> TRUE, shards |-> c.manifest]]

ShardIsLoaded(c, b) == b \in DOMAIN c.shards /\ c.shards[b].loaded

\* DEFAULT_PRELOAD_TARGET
DefaultPreloadTarget == 450

RECURSIVE preloadRecentShards(_, _, _, _)
\* preloadRecentShards: the shards of the manifest are visited newest first
\* until metaByFingerprint holds targetEntries entries; an unloaded shard is
\* fetched, a loaded one is ingested again.
preloadRecentShards(c, r, bs, targetEntries) ==
  IF bs = {} \/ Cardinality(DOMAIN c.byFp) >= targetEntries THEN c
  ELSE LET b == CHOOSE x \in bs : \A y \in bs : x >= y
           c1 == IF c.shards[b].loaded
                 THEN ingestShardDocument(c, b, c.shards[b].entries)
                 ELSE ensureShardLoaded(c, r, b)
       IN  preloadRecentShards(c1, r, bs \ {b}, targetEntries)

\* preloadRecentShards with its default target, which a store of MaxAssets
\* entries never reaches: every shard of the manifest is visited
PreloadShards(c, r, bs) == preloadRecentShards(c, r, bs, DefaultPreloadTarget)

\* loadMetaIndex after ensureBaseState
PreloadFrom(s) == [c |-> PreloadShards(s.c, s.r, DOMAIN s.c.shards), r |-> s.r]

\* loadMetaIndex
loadMetaIndex(c, r) == PreloadFrom(ensureBaseState(c, r))

\* loadMetaIndex of a build whose preload target is targetEntries
PreloadUpTo(s, targetEntries) ==
  [c |-> preloadRecentShards(s.c, s.r, DOMAIN s.c.shards, targetEntries),
   r |-> s.r]

loadMetaIndexUpTo(c, r, targetEntries) ==
  PreloadUpTo(ensureBaseState(c, r), targetEntries)

\* getMetaEntryFromCache(fingerprintOrPath): "none" stands for null
getMetaEntryFromCache(c, key) ==
  IF key \in DOMAIN c.byFp THEN c.byFp[key]
  ELSE IF key \in DOMAIN c.pathFp /\ c.pathFp[key] \in DOMAIN c.byFp
       THEN c.byFp[c.pathFp[key]]
       ELSE "none"

\* !!getMetaEntryFromCache(key)
HasMetaEntry(c, key) ==
  \/ key \in DOMAIN c.byFp
  \/ (key \in DOMAIN c.pathFp /\ c.pathFp[key] \in DOMAIN c.byFp)

\* The places at which a metadata write sequence can be cut by a rejected
\* request: the shard fetch, the shard write (or delete), the manifest write.
MetaFailPoints == {"none", "fetch", "persist", "manifest"}

\* writeManifest at the end of upsertMetaEntry and removeMetaEntries
MetaWriteManifest(c3, r1, failAt) ==
  IF failAt = "manifest" THEN [c |-> c3, r |-> r1, ok |-> FALSE]
  ELSE [c |-> c3, r |-> writeManifest(r1, c3), ok |-> TRUE]

\* upsertMetaEntry from persistShard on (lines 740-746)
UpsertPersist(c2, r, b, entries, failAt) ==
  IF failAt = "persist" THEN [c |-> c2, r |-> r, ok |-> FALSE]
  ELSE MetaWriteManifest(
         markManifestEntry(ingestShardDocument(c2, b, entries), b, c2.shards[b]),
         persistShard(r, b, entries), failAt)

\* shard.entries.set(fingerprint, entry); shard.count = shard.entries.size
PutShardEntries(c1, b, entries) ==
  [c1 EXCEPT !.shards[b].entries = entries,
             !.shards[b].count = Cardinality(DOMAIN entries)]

\* upsertMetaEntry once the shard is loaded (lines 733-739)
UpsertInShard(c1, r, b, entry, failAt) ==
  UpsertPersist(
    PutShardEntries(c1, b, MapPut(c1.shards[b].entries, entry.fingerprint, entry)),
    r, b, MapPut(c1.shards[b].entries, entry.fingerprint, entry), failAt)

\* upsertMetaEntry after ensureBaseState
UpsertInBase(s, b, entry, failAt) ==
  IF failAt = "fetch" /\ ~ShardIsLoaded(s.c, b)
  THEN [c |-> shardSlot(s.c, b), r |-> s.r, ok |-> FALSE]
  ELSE UpsertInShard(ensureShardLoaded(s.c, s.r, b), s.r, b, entry, failAt)

\* upsertMetaEntry(entry)
upsertMetaEntry(c, r, entry, failAt) ==
  UpsertInBase(ensureBaseState(c, r), resolveBucket(entry),
               StampEntry(entry, now), failAt)

\* what removeMetaEntries carries from one bucket to the next: the cache, the
\* branch, whether every request so far was accepted, and manifestDirty
RemoveState(c, r, ok, dirty) == [c |-> c, r |-> r, ok |-> ok, dirty |-> dirty]

\* removeMetaEntries, a shard that still has entries: persistShard,
\* ingestShardDocument, markManifestEntry (lines 712-717)
RemovePersist(c2, r, b, entries, failAt, dirty) ==
  IF failAt = "persist" THEN RemoveState(c2, r, FALSE, dirty)
  ELSE RemoveState(
         markManifestEntry(ingestShardDocument(c2, b, entries), b, c2.shards[b]),
         persistShard(r, b, entries), TRUE, TRUE)

\* removeMetaEntries, a shard left empty: deleteShardFile, the shard leaves
\* the cache and the manifest (lines 706-711)
RemoveShard(c2, r, b, failAt, dirty) ==
  IF failAt = "persist" /\ b \in DOMAIN r.shards
  THEN RemoveState(c2, r, FALSE, dirty)
  ELSE RemoveState(
         dropManifestEntry(
           evictBucketEntries([c2 EXCEPT !.shards = MapDel(c2.shards, b)], b), b),
         deleteShardFile(r, b), TRUE, TRUE)

\* removeMetaEntries once the listed entries have left the shard
RemoveWrite(c2, r, b, failAt, dirty) ==
  IF c2.shards[b].count = 0 THEN RemoveShard(c2, r, b, failAt, dirty)
  ELSE RemovePersist(c2, r, b, c2.shards[b].entries, failAt, dirty)

\* removeMetaEntries once the shard is loaded (lines 691-700): the listed
\* fingerprints the document holds are deleted from it and from the cache
RemoveInShard(c1, r, b, fps, failAt, dirty) ==
  IF fps \cap DOMAIN c1.shards[b].entries = {}
  THEN RemoveState(c1, r, TRUE, dirty)
  ELSE RemoveWrite(
         RemoveAllFromCache(
           PutShardEntries(c1, b,
             [fp \in (DOMAIN c1.shards[b].entries) \ fps |-> c1.shards[b].entries[fp]]),
           fps \cap DOMAIN c1.shards[b].entries),
         r, b, failAt, dirty)

\* one round of the loop over the grouped buckets (line 690 on)
RemoveInBase(s, b, fps, failAt) ==
  IF failAt = "fetch" /\ ~ShardIsLoaded(s.c, b)
  THEN RemoveState(shardSlot(s.c, b), s.r, FALSE, s.dirty)
  ELSE RemoveInShard(ensureShardLoaded(s.c, s.r, b), s.r, b, fps, failAt, s.dirty)

\* fingerprintToBucket.get(fingerprint) ?? bucketFromFingerprint(fingerprint)
BucketOfFingerprint(c, fp) ==
  IF fp \in DOMAIN c.fpBucket THEN c.fpBucket[fp] ELSE bucketFromFingerprint(fp)

RECURSIVE GroupBuckets(_, _, _, _)
\* the keys of grouped, in insertion order (lines 678-685)
GroupBuckets(c, list, k, acc) ==
  IF k > Len(list) THEN acc
  ELSE GroupBuckets(c, list, k + 1,
         IF \E j \in 1..Len(acc) : acc[j] = BucketOfFingerprint(c, list[k])
         THEN acc ELSE Append(acc, BucketOfFingerprint(c, list[k])))

\* grouped.get(bucket), as a set
GroupOf(c, list, b) ==
  {list[k] : k \in {j \in 1..Len(list) : BucketOfFingerprint(c, list[j]) = b}}

RECURSIVE RemoveGroups(_, _, _, _, _, _, _)
\* the loop over grouped.entries(): a rejected request (failAt, in round at)
\* ends the call there
RemoveGroups(s, c0, list, buckets, i, failAt, at) ==
  IF i > Len(buckets) \/ ~s.ok THEN s
  ELSE RemoveGroups(
         RemoveInBase(s, buckets[i], GroupOf(c0, list, buckets[i]),
                      IF i = at THEN failAt ELSE "none"),
         c0, list, buckets, i + 1, failAt, at)

\* if (manifestDirty) writeManifest (lines 720-723)
RemoveFinish(s, failAt) ==
  IF s.ok /\ s.dirty THEN MetaWriteManifest(s.c, s.r, failAt)
  ELSE [c |-> s.c, r |-> s.r, ok |-> s.ok]

\* removeMetaEntries after ensureBaseState
RemoveFromBase(s, list, failAt, at) ==
  RemoveFinish(
    RemoveGroups(RemoveState(s.c, s.r, TRUE, FALSE), s.c, list,
                 GroupBuckets(s.c, list, 1, << >>), 1, failAt, at),
    failAt)

\* removeMetaEntries(fingerprints)
removeMetaEntries(c, r, list, failAt, at) ==
  IF list = << >> THEN [c |-> c, r |-> r, ok |-> TRUE]
  ELSE RemoveFromBase(ensureBaseState(c, r), list, failAt, at)

(***************************************************************************)
(* Local durable index (part_004) and the in-memory upload index.         *)
(* A row keeps the columns the orchestrator decides on.                    *)
(***************************************************************************)
AssetRow(a, uploaded, lastError) ==
  [assetId |-> a, repoPath |-> determineRepoPath(a), uploaded |-> uploaded,
   lastError |-> lastError]

\* saveAsset: INSERT ... ON CONFLICT(fingerprint) DO UPDATE
saveAsset(db, fp, row) == MapPut(db, fp, row)

\* markUploaded: UPDATE assets SET uploaded = 1, last_error = NULL WHERE fingerprint = ?
markUploaded(db, fp) ==
  IF fp \in DOMAIN db
  THEN [db EXCEPT ![fp].uploaded = TRUE, ![fp].lastError = FALSE]
  ELSE db

\* recordFailure: UPDATE assets SET last_error = ?, uploaded = 0 WHERE fingerprint = ?
recordFailure(db, fp) ==
  IF fp \in DOMAIN db
  THEN [db EXCEPT ![fp].uploaded = FALSE, ![fp].lastError = TRUE]
  ELSE db

\* deleteAsset: DELETE FROM assets WHERE fingerprint = ?
deleteAsset(db, fp) == MapDel(db, fp)

\* updateIndexCacheForRecord: the entry is stored under the fingerprint (and
\* under the asset id, which names the same asset here)
updateIndexCacheForRecord(cache, fp, row) == MapPut(cache, fp, row)

\* removeFromIndexCache
removeFromIndexCache(cache, fp) == MapDel(cache, fp)

\* ensureUploadIndexCache: an empty cache is refilled from the table
ensureUploadIndexCache(cache, db) == IF DOMAIN cache = {} THEN db ELSE cache

\* uploadIndexCache.get(asset.id) || uploadIndexCache.get(fingerprint), ?.uploaded
CachedUploaded(cache, fp) == fp \in DOMAIN cache /\ cache[fp].uploaded

\* isAssetUploadedAsset(asset): a blocked fingerprint counts as not uploaded
isAssetUploadedAsset(a, bl, cache, c) ==
  LET fp == makeFingerprint(a) IN
  IF fp \in bl THEN FALSE
  ELSE \/ CachedUploaded(cache, fp)
       \/ HasMetaEntry(c, fp)

(***************************************************************************)
(* Sync orchestrator (types.ts).                                           *)
(***************************************************************************)
\* the selections handed to runSyncForAssets: up to MaxBatchLen of the first
\* MaxBatchLen assets, in library order from the first one (an asset may be
\* listed twice)
BatchLists ==
  {s \in UNION {[1..n -> 1..MaxBatchLen] : n \in 1..MaxBatchLen} :
     /\ s[1] = 1
     /\ \A k \in 1..(Len(s) - 1) : s[k] <= s[k + 1]}

IdleStatus == [running |-> FALSE, pendingUploads |-> 0, completedUploads |-> 0,
               isDeleting |-> FALSE, lastBatchTotal |-> 0, lastBatchUploaded |-> 0,
               lastBatchType |-> "null", lastError |-> "null"]

\* The upload batch in progress.  pc is the await the batch is suspended at;
\* "done" and "rejected" keep the last batch's outcome until the next starts.
\* failStep, outcome, attempted, failedFps, putFps, uploadedAtStart,
\* newAtStart, unreadable, blockedAtCall (the fingerprints on the blocklist
\* when the sync was requested), writes, disturbed, savedFps, markedFps,
\* upsertedFps and requested (the argument of deleteAssetsAsync) are history
\* fields.
IdleUp == [pc |-> "idle", id |-> 0, assets |-> << >>, allowBlocked |-> FALSE,
           source |-> "none", tokenCancelled |-> FALSE, prepared |-> << >>,
           i |-> 0, processed |-> 0, failed |-> 0, cancelled |-> FALSE,
           failStep |-> "none", outcome |-> "none",
           attempted |-> {}, failedFps |-> {}, putFps |-> {},
           uploadedAtStart |-> {}, newAtStart |-> {}, unreadable |-> {},
           blockedAtCall |-> {}, writes |-> 0, disturbed |-> FALSE,
           autoDelete |-> FALSE, deleteCandidates |-> {}, requested |-> {},
           savedFps |-> {}, markedFps |-> {}, upsertedFps |-> {}]

\* The deleteRepoFile call in progress.  hadEntry (the shards of the branch
\* held an entry for the path when the call began), batch (the last batch
\* the queue had run when the call began, -1 when one was in flight or
\* waiting), bucket and count0 (the bucket of the entry and its manifest
\* count when removeMetaEntries was called) are history fields.
IdleDel == [pc |-> "idle", path |-> << >>, fp |-> << >>, hadEntry |-> FALSE,
            batch |-> 0, bucket |-> 0, count0 |-> 0]

\* the module state of a freshly launched app (lines 83-109)
SyncIdle ==
  /\ now = 2
  /\ uploadIndexCache = EmptyMap
  /\ autoSyncBlocklist = {}
  /\ autoSyncBlocklistLoaded = FALSE
  /\ syncStatus = IdleStatus
  /\ lastCompletion = [type |-> "null", total |-> 0, failed |-> 0]
  /\ activeCancelToken = 0
  /\ metaReady = FALSE
  /\ invalidations = 0
  /\ mcache = NoCache
  /\ pendingJobs = << >>
  /\ up = IdleUp
  /\ del = IdleDel
  /\ ops = 0
  /\ faults = 0

\* The photo libraries considered: every photo taken on day 1, or the last
\* one without a creation time.
Libraries == {[a \in Assets |-> 1],
              [a \in Assets |-> IF a = MaxAssets THEN 0 ELSE 1]}

RECURSIVE EarlierSession(_)
\* What uploadPreparedAsset left in the local table and on the branch when
\* an earlier session (at time 1) uploaded assets 1..n.
EarlierSession(n) ==
  IF n = 0 THEN [c |-> NoCache, r |-> EmptyRemote, db |-> EmptyMap]
  ELSE LET p   == EarlierSession(n - 1)
           e   == [fingerprint |-> makeFingerprint(n),
                   repoPath |-> determineRepoPath(n),
                   createdAt |-> creationTime[n], uploadedAt |-> 1,
                   assetId |-> n]
           res == upsertMetaEntry(p.c, p.r, e, "none")
       IN  [c |-> res.c,
            r |-> [res.r EXCEPT !.files = @ \cup {determineRepoPath(n)}],
            db |-> saveAsset(p.db, makeFingerprint(n), AssetRow(n, TRUE, FALSE))]

\* The app is launched on a device holding MaxAssets photos; the local table
\* and the branch hold what an earlier session uploaded, if anything.
SyncInit ==
  /\ creationTime \in Libraries
  /\ SyncIdle
  /\ blocklistTable = {}
  /\ \E n \in 0..MaxEarlier :
       /\ assetsDb = EarlierSession(n).db
       /\ remote = EarlierSession(n).r

\* setSyncStatus(patch)
setSyncStatus(status, patch) ==
  [k \in DOMAIN status |-> IF k \in DOMAIN patch THEN patch[k] ELSE status[k]]

\* ensureMetaLoaded(false): loadMetaIndex unless metaReady
ensureMetaLoaded(c, r) == IF metaReady THEN [c |-> c, r |-> r] ELSE loadMetaIndex(c, r)

\* ensureAutoSyncBlocklist: the in-memory set is read from the table once
ensureAutoSyncBlocklist(bl) == IF autoSyncBlocklistLoaded THEN bl ELSE blocklistTable

RECURSIVE SortNewestFirst(_)
\* sort((a, b) => (b.creationTime ?? 0) - (a.creationTime ?? 0)), stable over
\* the order in which the media library returned the assets
SortNewestFirst(S) ==
  IF S = {} THEN << >>
  ELSE LET a == CHOOSE x \in S : \A y \in S :
                  \/ creationTime[x] > creationTime[y]
                  \/ (creationTime[x] = creationTime[y] /\ x <= y)
       IN  <<a>> \o SortNewestFirst(S \ {a})

SeqRange(s) == {s[k] : k \in 1..Len(s)}

FpsOf(s) == {makeFingerprint(s[k]) : k \in 1..Len(s)}

\* const skipBlocked = !options?.allowBlocked
SkipBlocked(allowBlocked) == ~allowBlocked

RECURSIVE PrepareLoop(_, _, _, _, _, _, _)
\* prepareAssetsForUpload, the for loop and the retry pass: an asset is
\* skipped when blocked or already uploaded (only with skipBlocked), or when
\* prepareAsset returns null for it twice; a fingerprint is registered once.
PrepareLoop(assets, k, skipBlocked, bl, cache, unreadable, acc) ==
  IF k > Len(assets) THEN acc
  ELSE LET a  == assets[k]
           fp == makeFingerprint(a)
           skip == \/ (skipBlocked /\ fp \in bl)
                   \/ (skipBlocked /\ CachedUploaded(cache, fp))
                   \/ a \in unreadable
                   \/ fp \in FpsOf(acc)
       IN  PrepareLoop(assets, k + 1, skipBlocked, bl, cache, unreadable,
                       IF skip THEN acc ELSE Append(acc, a))

\* runSyncOnce: collectAssetsFromSelectedAlbums(undefined, {includeUploaded:
\* false}) and queue.enqueue(() => processUploadBatch(assets,
\* {allowBlocked: true, source: 'auto'}))
RunSyncOnce ==
  /\ ops < MaxOps
  /\ Len(pendingJobs) < MaxPending
  /\ ops' = ops + 1
  /\ LET cache == ensureUploadIndexCache(uploadIndexCache, assetsDb)
         m == ensureMetaLoaded(mcache, remote)
         found == {a \in Assets :
                     ~isAssetUploadedAsset(a, autoSyncBlocklist, cache, m.c)}
     IN  /\ uploadIndexCache' = cache
         /\ mcache' = m.c
         /\ remote' = m.r
         /\ metaReady' = TRUE
         /\ IF found = {}
            THEN /\ syncStatus' = setSyncStatus(syncStatus,
                                    [lastError |-> "No photos found"])
                 /\ UNCHANGED pendingJobs
            ELSE /\ pendingJobs' = Append(pendingJobs,
                                     [assets |-> SortNewestFirst(found),
                                      allowBlocked |-> TRUE, source |-> "auto",
                                      blocked |-> {makeFingerprint(a) : a \in found}
                                                    \cap blocklistTable])
                 /\ UNCHANGED syncStatus
  /\ UNCHANGED <<creationTime, now, assetsDb, blocklistTable, autoSyncBlocklist,
                 autoSyncBlocklistLoaded, lastCompletion, activeCancelToken,
                 invalidations, up, del, faults, besideSync>>

\* runSyncForAssets(assets, options): queue.enqueue(() =>
\* processUploadBatch(assets, options)); the manual sync of a selection passes
\* allowBlocked: true, syncVisibleAssets allowBlocked: false
RunSyncForAssets(list, allowBlocked) ==
  /\ ops < MaxOps
  /\ Len(pendingJobs) < MaxPending
  /\ ops' = ops + 1
  /\ pendingJobs' = Append(pendingJobs,
                      [assets |-> list, allowBlocked |-> allowBlocked,
                       source |-> IF allowBlocked THEN "manual" ELSE "visible",
                       blocked |-> FpsOf(list) \cap blocklistTable])
  /\ UNCHANGED <<creationTime, now, assetsDb, blocklistTable, uploadIndexCache,
                 autoSyncBlocklist, autoSyncBlocklistLoaded, syncStatus,
                 lastCompletion, activeCancelToken, metaReady, invalidations,
                 mcache, remote, up, del, faults, besideSync>>

\* cancelActiveSync
CancelActiveSync ==
  /\ activeCancelToken # 0
  /\ activeCancelToken = up.id
  /\ up.pc \notin {"idle", "done", "rejected"}
  /\ ~up.tokenCancelled
  /\ up' = [up EXCEPT !.tokenCancelled = TRUE]
  /\ UNCHANGED <<creationTime, now, assetsDb, blocklistTable, uploadIndexCache,
                 autoSyncBlocklist, autoSyncBlocklistLoaded, syncStatus,
                 lastCompletion, activeCancelToken, metaReady, invalidations,
                 mcache, remote, pendingJobs, del, ops, faults, besideSync>>

UpInFlight == up.pc \notin {"idle", "done", "rejected"}

\* The queue starts the next job once the one before it has settled:
\* processUploadBatch up to its first await (lines 509-515).
BatchBegin ==
  /\ ~UpInFlight
  /\ pendingJobs # << >>
  /\ LET job == Head(pendingJobs) IN
     up' = [IdleUp EXCEPT !.pc = "meta", !.id = up.id + 1,
                          !.assets = job.assets,
                          !.allowBlocked = job.allowBlocked,
                          !.source = job.source,
                          !.blockedAtCall = job.blocked]
  /\ activeCancelToken' = up.id + 1
  /\ pendingJobs' = Tail(pendingJobs)
  /\ UNCHANGED <<creationTime, now, assetsDb, blocklistTable, uploadIndexCache,
                 autoSyncBlocklist, autoSyncBlocklistLoaded, syncStatus,
                 lastCompletion, metaReady, invalidations, mcache, remote,
                 del, ops, faults, besideSync>>

\* await ensureMetaLoaded(); await ensureMediaLibraryPermissions();
\* setSyncStatus({running: true, ...}) (lines 515-525).  A rejected load
\* rejects the batch.
BatchMetaLoad(ok) ==
  /\ up.pc = "meta"
  /\ IF ok
     THEN LET m == ensureMetaLoaded(mcache, remote) IN
          /\ mcache' = m.c
          /\ remote' = m.r
          /\ metaReady' = TRUE
          /\ syncStatus' = setSyncStatus(syncStatus,
               [running |-> TRUE, lastBatchType |-> "upload",
                lastBatchTotal |-> Len(up.assets), lastBatchUploaded |-> 0,
                lastError |-> "null", pendingUploads |-> Len(up.assets)])
          /\ up' = [up EXCEPT !.pc = "prepare",
                              !.writes = IF m.r # remote THEN 1 ELSE 0]
          /\ UNCHANGED faults
     ELSE /\ ~metaReady
          /\ faults < MaxFaults
          /\ faults' = faults + 1
          /\ up' = [up EXCEPT !.pc = "rejected", !.failStep = "meta"]
          /\ UNCHANGED <<mcache, remote, metaReady, syncStatus>>
  /\ UNCHANGED <<creationTime, now, assetsDb, blocklistTable, uploadIndexCache,
                 autoSyncBlocklist, autoSyncBlocklistLoaded, lastCompletion,
                 activeCancelToken, invalidations, pendingJobs, del, ops,
                 besideSync>>

CurAsset(u) == u.prepared[u.i]

CurFp(u) == makeFingerprint(CurAsset(u))

\* the catch block of the per-asset try, up to its await (lines 580-586)
UpCaught(u, step) ==
  [u EXCEPT !.pc = "recordFailure", !.failed = @ + 1, !.failStep = step,
            !.failedFps = @ \cup {CurFp(u)}]

CatchStatus(status, processed) ==
  setSyncStatus(status,
    [lastError |-> "Upload failed", lastBatchUploaded |-> processed,
     pendingUploads |-> Max(0, status.pendingUploads - 1)])

CancelledStatus(status, uploaded) ==
  setSyncStatus(status,
    [running |-> FALSE, lastBatchTotal |-> 0, lastBatchUploaded |-> uploaded,
     lastBatchType |-> "null", pendingUploads |-> 0,
     lastError |-> "Sync cancelled by user"])

EndedStatus(status) ==
  setSyncStatus(status,
    [running |-> FALSE, lastBatchTotal |-> 0, lastBatchUploaded |-> 0,
     lastBatchType |-> "null", pendingUploads |-> 0])

\* if (activeCancelToken === cancelToken) activeCancelToken = null
ReleaseToken(active, id) == IF active = id THEN 0 ELSE active

\* const prepared = await prepareAssetsForUpload(assets, batchOptions) and
\* the two early returns after it (lines 527-558).  unreadable: the assets
\* prepareAsset cannot read.  The blocklist read can reject.
\* shouldAutoDelete: the setting autoDeleteAfterSync (line 542).
BatchPrepare(unreadable, ok, shouldAutoDelete) ==
  /\ up.pc = "prepare"
  /\ unreadable \subseteq SeqRange(up.assets)
  /\ faults + Cardinality(unreadable) + (IF ok THEN 0 ELSE 1) <= MaxFaults
  /\ faults' = faults + Cardinality(unreadable) + (IF ok THEN 0 ELSE 1)
  /\ LET skipBlocked == SkipBlocked(up.allowBlocked)
         bl == IF skipBlocked THEN ensureAutoSyncBlocklist(autoSyncBlocklist)
               ELSE autoSyncBlocklist
         cache == IF skipBlocked
                  THEN ensureUploadIndexCache(uploadIndexCache, assetsDb)
                  ELSE uploadIndexCache
         prepared == PrepareLoop(up.assets, 1, skipBlocked, bl, cache,
                                 unreadable, << >>)
         fps == FpsOf(up.assets)
         u1 == [up EXCEPT
                  !.unreadable = unreadable,
                  !.uploadedAtStart = {fp \in fps : fp \in DOMAIN assetsDb
                                                   /\ assetsDb[fp].uploaded},
                  !.newAtStart = {fp \in fps :
                                    /\ fp \notin DOMAIN assetsDb
                                    /\ fp \notin DOMAIN cache
                                    /\ fp \notin DOMAIN mcache.byFp
                                    /\ fp \notin bl
                                    /\ fp \notin blocklistTable}]
     IN
     IF ~ok
     THEN /\ skipBlocked /\ ~autoSyncBlocklistLoaded /\ unreadable = {}
          /\ up' = [up EXCEPT !.pc = "rejected", !.failStep = "prepare"]
          /\ UNCHANGED <<autoSyncBlocklist, autoSyncBlocklistLoaded,
                         uploadIndexCache, syncStatus, activeCancelToken>>
     ELSE /\ autoSyncBlocklist' = bl
          /\ autoSyncBlocklistLoaded' = (autoSyncBlocklistLoaded \/ skipBlocked)
          /\ uploadIndexCache' = cache
          /\ IF up.tokenCancelled
             THEN /\ activeCancelToken' = ReleaseToken(activeCancelToken, up.id)
                  /\ syncStatus' = CancelledStatus(syncStatus, 0)
                  /\ up' = [u1 EXCEPT !.pc = "done", !.outcome = "cancelled",
                                      !.cancelled = TRUE]
             ELSE IF prepared = << >>
             THEN /\ activeCancelToken' = ReleaseToken(activeCancelToken, up.id)
                  /\ syncStatus' = EndedStatus(syncStatus)
                  /\ up' = [u1 EXCEPT !.pc = "done", !.outcome = "empty"]
             ELSE /\ UNCHANGED activeCancelToken
                  /\ syncStatus' =
                       IF Len(prepared) # Len(up.assets)
                       THEN setSyncStatus(syncStatus,
                              [running |-> TRUE, lastBatchType |-> "upload",
                               lastBatchTotal |-> Len(prepared),
                               lastBatchUploaded |-> 0, lastError |-> "null",
                               pendingUploads |-> Len(prepared)])
                       ELSE syncStatus
                  /\ up' = [u1 EXCEPT !.pc = "loop", !.prepared = prepared,
                                      !.i = 1,
                                      !.autoDelete = shouldAutoDelete]
  /\ UNCHANGED <<creationTime, now, assetsDb, blocklistTable, lastCompletion,
                 metaReady, invalidations, mcache, remote, pendingJobs, del,
                 ops, besideSync>>

BreakOnCancelMissing(observed) == FALSE

\* if (cancelToken.cancelled) { cancelled = true; break; }
BreakOnCancel(observed) == observed

\* The head of the for loop over prepared (lines 564-569) and the first await
\* of uploadPreparedAsset: saveAsset({... uploaded: false ...}) and
\* updateIndexCacheForRecord (lines 442-467).
UploadSave(ok) ==
  /\ up.pc = "loop"
  /\ LET observed == up.tokenCancelled
         u1 == [up EXCEPT !.cancelled = (@ \/ observed)]
     IN
     IF BreakOnCancel(observed) \/ up.i > Len(up.prepared)
     THEN /\ ok
          /\ up' = [u1 EXCEPT !.pc = "finish"]
          /\ UNCHANGED <<assetsDb, uploadIndexCache, syncStatus, faults>>
     ELSE LET a  == CurAsset(up)
              fp == CurFp(up)
              u2 == [u1 EXCEPT !.processed = @ + 1,
                               !.attempted = @ \cup {fp}]
          IN  IF ok
              THEN /\ assetsDb' = saveAsset(assetsDb, fp, AssetRow(a, FALSE, FALSE))
                   /\ uploadIndexCache' = updateIndexCacheForRecord(
                          uploadIndexCache, fp, AssetRow(a, FALSE, FALSE))
                   /\ up' = [u2 EXCEPT !.pc = "sha",
                                       !.savedFps = @ \cup {fp}]
                   /\ UNCHANGED <<syncStatus, faults>>
              ELSE /\ faults < MaxFaults
                   /\ faults' = faults + 1
                   /\ up' = UpCaught(u2, "save")
                   /\ syncStatus' = CatchStatus(syncStatus, u2.processed)
                   /\ UNCHANGED <<assetsDb, uploadIndexCache>>
  /\ UNCHANGED <<creationTime, now, blocklistTable, autoSyncBlocklist,
                 autoSyncBlocklistLoaded, lastCompletion, activeCancelToken,
                 metaReady, invalidations, mcache, remote, pendingJobs, del,
                 ops, besideSync>>

\* const sha = await fetchFileSha(repoPath, repo) (line 469)
UploadSha(ok) ==
  /\ up.pc = "sha"
  /\ IF ok
     THEN /\ up' = [up EXCEPT !.pc = "put"]
          /\ UNCHANGED <<syncStatus, faults>>
     ELSE /\ faults < MaxFaults
          /\ faults' = faults + 1
          /\ up' = UpCaught(up, "sha")
          /\ syncStatus' = CatchStatus(syncStatus, up.processed)
  /\ UNCHANGED <<creationTime, now, assetsDb, blocklistTable, uploadIndexCache,
                 autoSyncBlocklist, autoSyncBlocklistLoaded, lastCompletion,
                 activeCancelToken, metaReady, invalidations, mcache, remote,
                 pendingJobs, del, ops, besideSync>>

\* the rejection swallowed, the workflow going on
PutSwallowed(u) == [u EXCEPT !.pc = "mark"]

\* a rejected putFile is not caught in uploadPreparedAsset: it reaches the
\* catch block of the loop
PutRejected(u) == UpCaught(u, "put")

\* await putFile({path: repoPath, ...}) (lines 470-476)
UploadPut(ok) ==
  /\ up.pc = "put"
  /\ IF ok
     THEN /\ remote' = [remote EXCEPT !.files = @ \cup {determineRepoPath(CurAsset(up))}]
          /\ up' = [up EXCEPT !.pc = "mark", !.putFps = @ \cup {CurFp(up)},
                              !.writes = @ + 1]
          /\ UNCHANGED <<syncStatus, faults>>
     ELSE /\ faults < MaxFaults
          /\ faults' = faults + 1
          /\ up' = PutRejected(up)
          /\ syncStatus' = CatchStatus(syncStatus, up.processed)
          /\ UNCHANGED remote
  /\ UNCHANGED <<creationTime, now, assetsDb, blocklistTable, uploadIndexCache,
                 autoSyncBlocklist, autoSyncBlocklistLoaded, lastCompletion,
                 activeCancelToken, metaReady, invalidations, mcache,
                 pendingJobs, del, ops, besideSync>>

\* await localStore.markUploaded(...); updateIndexCacheForRecord({...
\* uploaded: true ...}) (lines 478-491)
UploadMark(ok) ==
  /\ up.pc = "mark"
  /\ IF ok
     THEN /\ assetsDb' = markUploaded(assetsDb, CurFp(up))
          /\ uploadIndexCache' = updateIndexCacheForRecord(uploadIndexCache,
                                   CurFp(up), AssetRow(CurAsset(up), TRUE, FALSE))
          /\ up' = [up EXCEPT !.pc = "unblock",
                              !.markedFps = @ \cup {CurFp(up)}]
          /\ UNCHANGED <<syncStatus, faults>>
     ELSE /\ faults < MaxFaults
          /\ faults' = faults + 1
          /\ up' = UpCaught(up, "mark")
          /\ syncStatus' = CatchStatus(syncStatus, up.processed)
          /\ UNCHANGED <<assetsDb, uploadIndexCache>>
  /\ UNCHANGED <<creationTime, now, blocklistTable, autoSyncBlocklist,
                 autoSyncBlocklistLoaded, lastCompletion, activeCancelToken,
                 metaReady, invalidations, mcache, remote, pendingJobs, del,
                 ops, besideSync>>

\* await unblockAutoSyncFingerprint(fingerprint) (line 493; lines 150-160):
\* a rejected blocklist read propagates, a rejected table delete is swallowed
\* and the fingerprint leaves the in-memory set all the same.
UploadUnblock(ok) ==
  /\ up.pc = "unblock"
  /\ LET fp == CurFp(up)
         bl == ensureAutoSyncBlocklist(autoSyncBlocklist)
     IN
     IF ok
     THEN /\ autoSyncBlocklist' = bl \ {fp}
          /\ autoSyncBlocklistLoaded' = TRUE
          /\ blocklistTable' = IF fp \in bl THEN blocklistTable \ {fp}
                               ELSE blocklistTable
          /\ up' = [up EXCEPT !.pc = "upsert"]
          /\ UNCHANGED <<syncStatus, faults>>
     ELSE /\ faults < MaxFaults
          /\ faults' = faults + 1
          /\ IF autoSyncBlocklistLoaded
             THEN /\ fp \in bl
                  /\ autoSyncBlocklist' = bl \ {fp}
                  /\ up' = [up EXCEPT !.pc = "upsert"]
                  /\ UNCHANGED <<autoSyncBlocklistLoaded, blocklistTable,
                                 syncStatus>>
             ELSE /\ up' = UpCaught(up, "unblock")
                  /\ syncStatus' = CatchStatus(syncStatus, up.processed)
                  /\ UNCHANGED <<autoSyncBlocklist, autoSyncBlocklistLoaded,
                                 blocklistTable>>
  /\ UNCHANGED <<creationTime, now, assetsDb, uploadIndexCache, lastCompletion,
                 activeCancelToken, metaReady, invalidations, mcache, remote,
                 pendingJobs, del, ops, besideSync>>

\* the MetaEntry uploadPreparedAsset builds (lines 495-504)
MetaEntryOf(a) ==
  [fingerprint |-> makeFingerprint(a), repoPath |-> determineRepoPath(a),
   createdAt |-> creationTime[a], uploadedAt |-> now, assetId |-> a]

\* if (deleteCandidates && item.asset?.id) deleteCandidates.add(item.asset.id)
\* (lines 572-574)
AddCandidate(u) ==
  IF u.autoDelete THEN u.deleteCandidates \cup {CurAsset(u)}
  ELSE u.deleteCandidates

\* await upsertMetaEntry(client, repo, metaEntry) (line 505) and, when it
\* returns, the rest of the try block (lines 572-579)
UploadUpsert(failAt) ==
  /\ up.pc = "upsert"
  /\ LET res == upsertMetaEntry(mcache, remote, MetaEntryOf(CurAsset(up)), failAt)
         w == (IF res.r.shards # remote.shards THEN 1 ELSE 0)
              + (IF res.r.manifest # remote.manifest THEN 1 ELSE 0)
     IN
     /\ (failAt # "none") => ~res.ok
     /\ mcache' = res.c
     /\ remote' = res.r
     /\ IF res.ok
        THEN /\ syncStatus' = setSyncStatus(syncStatus,
                  [completedUploads |-> syncStatus.completedUploads + 1,
                   lastBatchUploaded |-> up.processed,
                   pendingUploads |-> Max(0, syncStatus.pendingUploads - 1)])
             /\ up' = [up EXCEPT !.pc = "loop", !.i = @ + 1, !.writes = @ + w,
                                 !.upsertedFps = @ \cup {CurFp(up)},
                                 !.deleteCandidates = AddCandidate(up)]
             /\ UNCHANGED faults
        ELSE /\ faults < MaxFaults
             /\ faults' = faults + 1
             /\ up' = [UpCaught(up, "upsert") EXCEPT !.writes = @ + w]
             /\ syncStatus' = CatchStatus(syncStatus, up.processed)
  /\ UNCHANGED <<creationTime, now, assetsDb, blocklistTable, uploadIndexCache,
                 autoSyncBlocklist, autoSyncBlocklistLoaded, lastCompletion,
                 activeCancelToken, metaReady, invalidations, pendingJobs, del,
                 ops, besideSync>>

\* await localStore.recordFailure(...); updateIndexCacheForRecord({...
\* uploaded: false, lastError ...}) in the catch block (lines 587-600).  The
\* await is outside any try: when it rejects, processUploadBatch rejects.
UploadRecordFailure(ok) ==
  /\ up.pc = "recordFailure"
  /\ IF ok
     THEN /\ assetsDb' = recordFailure(assetsDb, CurFp(up))
          /\ uploadIndexCache' = updateIndexCacheForRecord(uploadIndexCache,
                                   CurFp(up), AssetRow(CurAsset(up), FALSE, TRUE))
          /\ up' = [up EXCEPT !.pc = "loop", !.i = @ + 1]
          /\ UNCHANGED faults
     ELSE /\ faults < MaxFaults
          /\ faults' = faults + 1
          /\ up' = [up EXCEPT !.pc = "rejected"]
          /\ UNCHANGED <<assetsDb, uploadIndexCache>>
  /\ UNCHANGED <<creationTime, now, blocklistTable, autoSyncBlocklist,
                 autoSyncBlocklistLoaded, syncStatus, lastCompletion,
                 activeCancelToken, metaReady, invalidations, mcache, remote,
                 pendingJobs, del, ops, besideSync>>

CancelledBatchUploadedReset(processed, failed) == 0

\* lastBatchUploaded: processed in the cancelled branch (line 608)
CancelledBatchUploaded(processed, failed) == processed

\* every prepared asset of the batch
deleteRequestAll(u) == IF u.autoDelete THEN SeqRange(u.prepared) ELSE {}

\* Array.from(deleteCandidates) (line 616)
deleteRequest(u) == u.deleteCandidates

\* After the loop (lines 604-628): the final status, the completion event of
\* a batch that was not cancelled, deleteAssetsAsync for the candidates
\* (a rejection is swallowed), and the release of the cancel token.
BatchFinish ==
  /\ up.pc = "finish"
  /\ IF up.tokenCancelled
     THEN /\ syncStatus' = CancelledStatus(syncStatus,
                             CancelledBatchUploaded(up.processed, up.failed))
          /\ UNCHANGED lastCompletion
     ELSE /\ syncStatus' = EndedStatus(syncStatus)
          /\ lastCompletion' = [type |-> "upload", total |-> Len(up.prepared),
                                failed |-> up.failed]
  /\ activeCancelToken' = ReleaseToken(activeCancelToken, up.id)
  /\ up' = [up EXCEPT !.pc = "done",
                      !.outcome = IF up.tokenCancelled THEN "cancelled"
                                  ELSE "completed",
                      !.requested = deleteRequest(up)]
  /\ UNCHANGED <<creationTime, now, assetsDb, blocklistTable, uploadIndexCache,
                 autoSyncBlocklist, autoSyncBlocklistLoaded, metaReady,
                 invalidations, mcache, remote, pendingJobs, del, ops, faults,
                 besideSync>>

\* a delete step taken while an upload batch is in flight is noted on the batch
Disturb(u) == IF u.pc \notin {"idle", "done", "rejected"}
              THEN [u EXCEPT !.disturbed = TRUE] ELSE u

DeleteEndStatus(status) ==
  setSyncStatus(status,
    [running |-> FALSE, isDeleting |-> FALSE, lastBatchType |-> "null",
     lastBatchTotal |-> 0, lastBatchUploaded |-> 0])

\* deleteRepoFile(path) up to its first request (lines 835-847).  It is
\* called from the gallery on a file of the branch and is not handed to the
\* job queue.
DeleteBegin(a) ==
  /\ ops < MaxOps
  /\ ops' = ops + 1
  /\ del.pc = "idle"
  /\ determineRepoPath(a) \in remote.files
  /\ LET m == ensureMetaLoaded(mcache, remote) IN
     /\ mcache' = m.c
     /\ remote' = m.r
  /\ metaReady' = TRUE
  /\ syncStatus' = setSyncStatus(syncStatus,
       [running |-> TRUE, isDeleting |-> TRUE, lastBatchType |-> "delete",
        lastBatchTotal |-> 1, lastBatchUploaded |-> 0])
  /\ del' = [IdleDel EXCEPT
               !.pc = "file", !.path = determineRepoPath(a),
               !.hadEntry = \E b \in DOMAIN remote.shards :
                              \E fp \in DOMAIN remote.shards[b] :
                                remote.shards[b][fp].repoPath = determineRepoPath(a),
               !.batch = IF UpInFlight \/ pendingJobs # << >> THEN -1 ELSE up.id]
  /\ up' = Disturb(up)
  /\ UNCHANGED <<creationTime, now, assetsDb, blocklistTable, uploadIndexCache,
                 autoSyncBlocklist, autoSyncBlocklistLoaded, lastCompletion,
                 activeCancelToken, invalidations, pendingJobs, faults,
                 besideSync>>

\* the catch and finally blocks of deleteRepoFile (lines 861-871)
DeleteFailed ==
  /\ faults < MaxFaults
  /\ faults' = faults + 1
  /\ syncStatus' = DeleteEndStatus(
                     setSyncStatus(syncStatus, [lastError |-> "Delete failed"]))
  /\ lastCompletion' = [type |-> "delete", total |-> 1, failed |-> 1]
  /\ del' = IdleDel
  /\ up' = Disturb(up)
  /\ UNCHANGED invalidations

\* the end of the try block and the finally block (lines 854-859, 867-871)
DeleteSucceeded ==
  /\ invalidations' = invalidations + 1
  /\ lastCompletion' = [type |-> "delete", total |-> 1, failed |-> 0]
  /\ syncStatus' = DeleteEndStatus(syncStatus)
  /\ del' = IdleDel
  /\ up' = Disturb(up)

\* const cached = getMetaEntryFromCache(path), found (line 847)
CachedForDelete(d, c, fp) ==
  [d EXCEPT !.pc = "removeMeta", !.fp = fp,
            !.bucket = BucketOfFingerprint(c, fp),
            !.count0 = ManifestCount(c.manifest, BucketOfFingerprint(c, fp))]

\* await deleteFile(path, ...); const cached = getMetaEntryFromCache(path)
\* (lines 845-847)
DeleteFile(ok) ==
  /\ del.pc = "file"
  /\ IF ok
     THEN /\ remote' = [remote EXCEPT !.files = @ \ {del.path}]
          /\ IF HasMetaEntry(mcache, del.path)
             THEN /\ del' = CachedForDelete(del, mcache,
                            getMetaEntryFromCache(mcache, del.path).fingerprint)
                  /\ up' = Disturb(up)
                  /\ UNCHANGED <<syncStatus, lastCompletion, invalidations>>
             ELSE DeleteSucceeded
          /\ UNCHANGED faults
     ELSE /\ DeleteFailed
          /\ UNCHANGED remote
  /\ UNCHANGED <<creationTime, now, assetsDb, blocklistTable, uploadIndexCache,
                 autoSyncBlocklist, autoSyncBlocklistLoaded, activeCancelToken,
                 metaReady, mcache, pendingJobs, ops, besideSync>>

\* await removeMetaEntries(client, repo, [cached.fingerprint]) (line 848)
DeleteRemoveMeta(failAt) ==
  /\ del.pc = "removeMeta"
  /\ LET res == removeMetaEntries(mcache, remote, <<del.fp>>, failAt, 1) IN
     /\ (failAt # "none") => ~res.ok
     /\ mcache' = res.c
     /\ remote' = res.r
     /\ IF res.ok
        THEN /\ del' = [del EXCEPT !.pc = "local"]
             /\ up' = Disturb(up)
             /\ UNCHANGED <<syncStatus, lastCompletion, invalidations, faults>>
        ELSE DeleteFailed
  /\ UNCHANGED <<creationTime, now, assetsDb, blocklistTable, uploadIndexCache,
                 autoSyncBlocklist, autoSyncBlocklistLoaded, activeCancelToken,
                 metaReady, pendingJobs, ops, besideSync>>

\* getAsset, await localStore.deleteAsset(cached.fingerprint) and
\* removeFromIndexCache (lines 849-851)
DeleteLocal(ok) ==
  /\ del.pc = "local"
  /\ IF ok
     THEN /\ assetsDb' = deleteAsset(assetsDb, del.fp)
          /\ uploadIndexCache' = removeFromIndexCache(uploadIndexCache, del.fp)
          /\ del' = [del EXCEPT !.pc = "block"]
          /\ up' = Disturb(up)
          /\ UNCHANGED <<syncStatus, lastCompletion, invalidations, faults>>
     ELSE /\ DeleteFailed
          /\ UNCHANGED <<assetsDb, uploadIndexCache>>
  /\ UNCHANGED <<creationTime, now, blocklistTable, autoSyncBlocklist,
                 autoSyncBlocklistLoaded, activeCancelToken, metaReady, mcache,
                 remote, pendingJobs, ops, besideSync>>

\* await blockAutoSyncFingerprint(cached.fingerprint) (line 852; lines
\* 138-148) and the rest of deleteRepoFile: a rejected blocklist read
\* propagates, a rejected table insert is swallowed.
DeleteBlock(ok) ==
  /\ del.pc = "block"
  /\ LET bl == ensureAutoSyncBlocklist(autoSyncBlocklist) IN
     IF ok
     THEN /\ autoSyncBlocklist' = bl \cup {del.fp}
          /\ autoSyncBlocklistLoaded' = TRUE
          /\ blocklistTable' = blocklistTable \cup {del.fp}
          /\ DeleteSucceeded
          /\ UNCHANGED faults
     ELSE IF autoSyncBlocklistLoaded
     THEN /\ del.fp \notin bl
          /\ faults < MaxFaults
          /\ faults' = faults + 1
          /\ autoSyncBlocklist' = bl \cup {del.fp}
          /\ DeleteSucceeded
          /\ UNCHANGED <<autoSyncBlocklistLoaded, blocklistTable>>
     ELSE /\ DeleteFailed
          /\ UNCHANGED <<autoSyncBlocklist, autoSyncBlocklistLoaded,
                         blocklistTable>>
  /\ UNCHANGED <<creationTime, now, assetsDb, uploadIndexCache,
                 activeCancelToken, metaReady, mcache, remote, pendingJobs,
                 ops, besideSync>>

SyncStep(settings) ==
  \/ RunSyncOnce
  \/ \E list \in BatchLists, allowBlocked \in BOOLEAN :
       RunSyncForAssets(list, allowBlocked)
  \/ CancelActiveSync
  \/ BatchBegin
  \/ \E ok \in BOOLEAN : BatchMetaLoad(ok)
  \/ \E unreadable \in SUBSET Assets, ok \in BOOLEAN,
        shouldAutoDelete \in settings :
       BatchPrepare(unreadable, ok, shouldAutoDelete)
  \/ \E ok \in BOOLEAN : UploadSave(ok)
  \/ \E ok \in BOOLEAN : UploadSha(ok)
  \/ \E ok \in BOOLEAN : UploadPut(ok)
  \/ \E ok \in BOOLEAN : UploadMark(ok)
  \/ \E ok \in BOOLEAN : UploadUnblock(ok)
  \/ \E failAt \in MetaFailPoints : UploadUpsert(failAt)
  \/ \E ok \in BOOLEAN : UploadRecordFailure(ok)
  \/ BatchFinish
  \/ \E a \in Assets : DeleteBegin(a)
  \/ \E ok \in BOOLEAN : DeleteFile(ok)
  \/ \E failAt \in MetaFailPoints : DeleteRemoveMeta(failAt)
  \/ \E ok \in BOOLEAN : DeleteLocal(ok)
  \/ \E ok \in BOOLEAN : DeleteBlock(ok)

\* autoDeleteAfterSync off, and on
SyncNext == SyncStep({FALSE})

AutoDeleteNext == SyncStep({TRUE})

(***************************************************************************)
(* The metadata store and the contents API on their own: upsertMetaEntry,  *)
(* removeMetaEntries, loadMetaIndex, invalidateMetaCache and putFile are   *)
(* called one after the other, days pass, and another installation of the  *)
(* app writes to the same branch.  Every write goes through the conditional*)
(* PUT / DELETE of the contents API.                                       *)
(***************************************************************************)
\* response.data.content.sha: the blob SHA, a hash of the file's content
ShaOf(content) == <<"sha", content>>

\* sha undefined / null: no file known
NoSha == <<"none", 0>>

NoShas == [manifest |-> NoSha, shards |-> EmptyMap, rows |-> EmptyMap,
           file |-> EmptyMap]

NoCall == [op |-> "none", ok |-> TRUE, err |-> "none", fps |-> {}, paths |-> {},
           asset |-> 0, day |-> 0, bucket |-> 0, boot |-> FALSE,
           stale |-> "none", clean |-> TRUE, expected |-> NoSha]

\* the state of the three variables when nothing has been called
StoreIdle == shas = NoShas /\ blobs = EmptyMap /\ call = NoCall

\* the sha getContent returns for the shard file of a bucket
RemoteShardSha(r, b) == IF b \in DOMAIN r.shards THEN ShaOf(r.shards[b]) ELSE NoSha

\* the sha getContent returns for manifest.json, whose rows hold counts and shas
RemoteManifestSha(r, file) ==
  IF r.manifest.exists THEN ShaOf(<<r.manifest.shards, file>>) ELSE NoSha

\* fetchFileSha(path): undefined on 404
fetchFileSha(path) == IF path \in DOMAIN blobs THEN ShaOf(blobs[path]) ELSE NoSha

AcceptsAnySha(onBranch, expected) == TRUE

\* createOrUpdateFileContents / deleteFile with sha: the request is accepted
\* when the sha sent is the sha of the file on the branch (none for a new file)
AcceptsSha(onBranch, expected) == expected = onBranch

ShaAt(m, b) == IF b \in DOMAIN m THEN m[b] ELSE NoSha

\* what ensureBaseState leaves as known shas (lines 523-564): with a cache,
\* what was known; from the fetched manifest, its sha and the sha of each
\* row; after a bootstrap, the shas of the fetched shard files and of the
\* manifest just created
BaseShas(c, r, k, s0) ==
  IF c.present THEN k
  ELSE IF r.manifest.exists
  THEN [manifest |-> RemoteManifestSha(r, k.file), shards |-> k.file,
        rows |-> k.file, file |-> k.file]
  ELSE [manifest |-> RemoteManifestSha(s0.r,
                       [b \in DOMAIN r.shards |-> RemoteShardSha(r, b)]),
        shards |-> [b \in DOMAIN r.shards |-> RemoteShardSha(r, b)],
        rows |-> [b \in DOMAIN r.shards |-> RemoteShardSha(r, b)],
        file |-> [b \in DOMAIN r.shards |-> RemoteShardSha(r, b)]]

ShardShaKept(c0, r0, res, b, old) == old

\* shard.sha after a call: the sha returned by persistShard when the call
\* wrote the shard (line 394), the sha fetched by ensureShardLoaded when the
\* call loaded it (line 590), else what it was
ShardShaAfter(c0, r0, res, b, old) ==
  IF RemoteShardSha(res.r, b) # RemoteShardSha(r0, b) THEN RemoteShardSha(res.r, b)
  ELSE IF ~ShardIsLoaded(c0, b) /\ ShardIsLoaded(res.c, b) THEN RemoteShardSha(r0, b)
  ELSE old

\* the sha of each manifest row after a call: markManifestEntry copies
\* shard.sha (line 630)
RowShasAfter(k0, c0, r0, res) ==
  [b \in DOMAIN res.c.manifest |-> ShardShaAfter(c0, r0, res, b, ShaAt(k0.rows, b))]

\* the known shas after a call that started from the base state s0 with the
\* shas k0; wrote: the call reached its writeManifest and it was accepted
ShasAfter(k0, s0, res, wrote, rows) ==
  [manifest |-> IF wrote THEN RemoteManifestSha(res.r, rows) ELSE k0.manifest,
   shards |-> [b \in DOMAIN res.c.shards |->
                 ShardShaAfter(s0.c, s0.r, res, b, ShaAt(k0.shards, b))],
   rows |-> rows,
   file |-> IF wrote THEN rows ELSE k0.file]

\* persistShard / deleteShardFile would send a sha that is not the file's
StaleShard(k, c, r, b) ==
  ShardIsLoaded(c, b) /\ ~AcceptsSha(RemoteShardSha(r, b), ShaAt(k.shards, b))

\* writeManifest would send a sha that is not the manifest's
StaleManifest(k, r) == ~AcceptsSha(RemoteManifestSha(r, k.file), k.manifest)

\* where a call on the store ends: at the injected rejection, or at the
\* first conditional write whose sha is stale
UpsertEnds(k0, s0, b, failAt) ==
  IF failAt # "none" THEN failAt
  ELSE IF StaleShard(k0, s0.c, s0.r, b) THEN "persist"
  ELSE IF StaleManifest(k0, s0.r) THEN "manifest"
  ELSE "none"

CallError(ok, stale) ==
  IF ok THEN "none" ELSE IF stale # "none" THEN "VersionConflict" ELSE "RequestFailed"

\* a run stays clean as long as no call failed and nobody else wrote
StoreCall(op, ok, stale, fps, paths, a, b, boot) ==
  [op |-> op, ok |-> ok, err |-> CallError(ok, stale), fps |-> fps,
   paths |-> paths, asset |-> a, day |-> now, bucket |-> b, boot |-> boot,
   stale |-> stale, clean |-> call.clean /\ ok, expected |-> NoSha]

\* what every action of the store leaves alone
besideStore == <<queueVars, creationTime, assetsDb, blocklistTable,
                 uploadIndexCache, autoSyncBlocklist, autoSyncBlocklistLoaded,
                 syncStatus, lastCompletion, activeCancelToken, metaReady,
                 invalidations, pendingJobs, up, del, cacheVars, utilVars>>

\* the end of a call on the metadata store
StoreReturns(k0, s0, res, wrote, info, failAt) ==
  /\ (failAt # "none") => (~res.ok /\ faults < MaxStoreFaults)
  /\ faults' = faults + (IF failAt # "none" THEN 1 ELSE 0)
  /\ mcache' = res.c
  /\ remote' = res.r
  /\ shas' = ShasAfter(k0, s0, res, wrote, RowShasAfter(k0, s0.c, s0.r, res))
  /\ call' = info
  /\ ops' = ops + 1
  /\ UNCHANGED <<now, blobs, besideStore>>

UpsertStale(k0, s0, b) ==
  IF StaleShard(k0, s0.c, s0.r, b) THEN "shard"
  ELSE IF StaleManifest(k0, s0.r) THEN "manifest" ELSE "none"

UpsertFrom(s0, k0, a, b, failAt, res) ==
  /\ (failAt # "none") => UpsertStale(k0, s0, b) = "none"
  /\ StoreReturns(k0, s0, res, res.ok,
       StoreCall("upsert", res.ok, UpsertStale(k0, s0, b),
                 {makeFingerprint(a)}, {determineRepoPath(a)}, a, b,
                 ~mcache.present /\ ~remote.manifest.exists),
       failAt)

UpsertIn(s0, k0, a, b, failAt) ==
  UpsertFrom(s0, k0, a, b, failAt,
             UpsertInBase(s0, b, StampEntry(MetaEntryOf(a), now),
                          UpsertEnds(k0, s0, b, failAt)))

UpsertOn(s0, a, failAt) ==
  UpsertIn(s0, BaseShas(mcache, remote, shas, s0), a,
           resolveBucket(MetaEntryOf(a)), failAt)

\* upsertMetaEntry(client, repo, entry) with the entry uploadPreparedAsset
\* builds for asset a today
MetaUpsert(a, failAt) ==
  /\ ops < MaxStoreOps
  /\ UpsertOn(ensureBaseState(mcache, remote), a, failAt)

\* the lists handed to removeMetaEntries: one or two distinct fingerprints
RemoveLists ==
  {<<makeFingerprint(a)>> : a \in Assets}
    \cup {<<makeFingerprint(x[1]), makeFingerprint(x[2])>> :
            x \in {y \in Assets \X Assets : y[1] # y[2]}}

\* the entries of a shard as removeMetaEntries will see them
EntriesSeen(c, r, b) ==
  IF ShardIsLoaded(c, b) THEN c.shards[b].entries ELSE fetchShardDocument(r, b)

\* deleteShardFile returns at once: the round empties a loaded shard whose
\* sha is unknown (line 401: if (!shard.sha) return)
SkipsDelete(k0, s0, list, b) ==
  /\ ShardIsLoaded(s0.c, b)
  /\ ShaAt(k0.shards, b) = NoSha
  /\ DOMAIN s0.c.shards[b].entries # {}
  /\ DOMAIN s0.c.shards[b].entries \subseteq GroupOf(s0.c, list, b)

\* the first round of the loop that writes a shard with a stale sha (0: none)
FirstStale(k0, s0, list, buckets) ==
  LET bad == {i \in 1..Len(buckets) :
                /\ StaleShard(k0, s0.c, s0.r, buckets[i])
                /\ ~SkipsDelete(k0, s0, list, buckets[i])
                /\ GroupOf(s0.c, list, buckets[i])
                     \cap DOMAIN EntriesSeen(s0.c, s0.r, buckets[i]) # {}}
  IN  IF bad = {} THEN 0 ELSE CHOOSE i \in bad : \A j \in bad : i <= j

\* the shard files a skipped deleteShardFile left on the branch
KeepSkipped(res, k0, s0, list) ==
  [res EXCEPT !.r.shards =
     [b \in DOMAIN res.r.shards
              \cup {x \in DOMAIN s0.r.shards : SkipsDelete(k0, s0, list, x)} |->
        IF b \in DOMAIN res.r.shards THEN res.r.shards[b] ELSE s0.r.shards[b]]]

RemoveEnds(k0, s0, stale1, failAt) ==
  IF failAt # "none" THEN failAt
  ELSE IF stale1 # 0 THEN "persist"
  ELSE IF StaleManifest(k0, s0.r) THEN "manifest"
  ELSE "none"

RemoveStale(k0, s0, stale1, res) ==
  IF stale1 # 0 THEN "shard"
  ELSE IF StaleManifest(k0, s0.r) /\ ~res.ok THEN "manifest" ELSE "none"

PathsOf(c, fps) ==
  UNION {IF fp \in DOMAIN c.fpPaths THEN c.fpPaths[fp] ELSE {} : fp \in fps}

RemoveFrom(s0, k0, list, buckets, stale1, failAt, res) ==
  /\ (failAt # "none") => (stale1 = 0 /\ ~StaleManifest(k0, s0.r))
  /\ StoreReturns(k0, s0, res, res.ok /\ res.r.manifest # s0.r.manifest,
       StoreCall("remove", res.ok, RemoveStale(k0, s0, stale1, res),
                 SeqRange(list), PathsOf(s0.c, SeqRange(list)), 0,
                 IF stale1 # 0 THEN buckets[stale1] ELSE 0,
                 ~mcache.present /\ ~remote.manifest.exists),
       failAt)

RemoveIn(s0, k0, list, buckets, stale1, failAt, at) ==
  RemoveFrom(s0, k0, list, buckets, stale1, failAt,
             KeepSkipped(
               RemoveFromBase(s0, list, RemoveEnds(k0, s0, stale1, failAt),
                              IF stale1 # 0 THEN stale1 ELSE at),
               k0, s0, list))

RemoveOn(s0, k0, list, buckets, failAt, at) ==
  /\ (failAt = "persist" /\ at <= Len(buckets)) =>
        ~SkipsDelete(k0, s0, list, buckets[at])
  /\ RemoveIn(s0, k0, list, buckets, FirstStale(k0, s0, list, buckets), failAt, at)

RemoveAt(s0, list, failAt, at) ==
  RemoveOn(s0, BaseShas(mcache, remote, shas, s0), list,
           GroupBuckets(s0.c, list, 1, << >>), failAt, at)

\* removeMetaEntries(client, repo, list); an injected rejection strikes in
\* round at of the loop over the buckets
MetaRemove(list, failAt, at) ==
  /\ ops < MaxStoreOps
  /\ at <= Len(list)
  /\ (failAt \in {"none", "manifest"}) => at = 1
  /\ RemoveAt(ensureBaseState(mcache, remote), list, failAt, at)

\* invalidateMetaCache: the cache and the reverse indices are dropped (the
\* app is restarted, or its caches are cleared)
MetaInvalidate ==
  /\ mcache.present
  /\ mcache' = NoCache
  /\ shas' = [NoShas EXCEPT !.file = shas.file]
  /\ call' = StoreCall("invalidate", TRUE, "none", {}, {}, 0, 0, FALSE)
  /\ UNCHANGED <<remote, now, blobs, ops, faults, besideStore>>

LoadOn(s0, k0, boot) ==
  StoreReturns(k0, s0, PreloadFrom(s0) @@ [ok |-> TRUE], FALSE,
               StoreCall("load", TRUE, "none", {}, {}, 0, 0, boot), "none")

\* loadMetaIndex(client, repo)
MetaLoad ==
  /\ ops < MaxStoreOps
  /\ LoadOn(ensureBaseState(mcache, remote),
            BaseShas(mcache, remote, shas, ensureBaseState(mcache, remote)),
            ~mcache.present /\ ~remote.manifest.exists)

\* Date.now() moves on to the next day
DayPasses ==
  /\ now < MaxDay
  /\ now' = now + 1
  /\ UNCHANGED <<mcache, remote, shas, blobs, call, ops, faults, besideStore>>

\* gitgallery/meta/manifest.json is deleted on the branch by someone else
ManifestLost ==
  /\ ops < MaxStoreOps
  /\ remote.manifest.exists
  /\ ops' = ops + 1
  /\ remote' = [remote EXCEPT !.manifest = [exists |-> FALSE, shards |-> EmptyMap]]
  /\ shas' = [shas EXCEPT !.file = EmptyMap]
  /\ call' = [StoreCall("other", TRUE, "none", {}, {}, 0, 0, FALSE)
                EXCEPT !.clean = FALSE]
  /\ UNCHANGED <<mcache, now, blobs, faults, besideStore>>

\* the entry another installation of the app adds to the shard of day b
ForeignEntry(b) ==
  [fingerprint |-> <<0, b, 0>>, repoPath |-> <<"gitgallery/images", 0>>,
   createdAt |-> b, uploadedAt |-> b, assetId |-> 0, updatedAt |-> b]

OtherWrote(r1) ==
  [r1 EXCEPT !.manifest.shards =
     [b \in DOMAIN r1.shards |-> Cardinality(DOMAIN r1.shards[b])]]

\* another installation upserts an entry: it writes the shard of day b and
\* the manifest
OtherClientWrites(b) ==
  /\ ops < MaxStoreOps
  /\ remote.manifest.exists
  /\ <<0, b, 0>> \notin DOMAIN fetchShardDocument(remote, b)
  /\ ops' = ops + 1
  /\ remote' = OtherWrote(persistShard(remote, b,
                 MapPut(fetchShardDocument(remote, b), <<0, b, 0>>, ForeignEntry(b))))
  /\ shas' = [shas EXCEPT !.file =
                [x \in DOMAIN remote'.shards |-> RemoteShardSha(remote', x)]]
  /\ call' = [StoreCall("other", TRUE, "none", {}, {}, 0, b, FALSE)
                EXCEPT !.clean = FALSE]
  /\ UNCHANGED <<mcache, now, blobs, faults, besideStore>>

\* the contents handed to putFile
Contents == {1, 2}

\* the sha a caller of putFile passes: none, or the sha of a content it saw
CallerShas == {NoSha} \cup {ShaOf(x) : x \in Contents}

\* putFile({path, contentBase64, sha}): sha = params.sha ?? await
\* fetchFileSha(path), then createOrUpdateFileContents with it; a rejected
\* request propagates
PutFile(path, content, expected) ==
  /\ ops < MaxStoreOps
  /\ ops' = ops + 1
  /\ LET sha == IF expected = NoSha THEN fetchFileSha(path) ELSE expected IN
     IF AcceptsSha(fetchFileSha(path), sha)
     THEN /\ blobs' = MapPut(blobs, path, content)
          /\ call' = [StoreCall("putFile", TRUE, "none", {}, {path}, 0, 0, FALSE)
                        EXCEPT !.expected = expected]
     ELSE /\ blobs' = blobs
          /\ call' = [StoreCall("putFile", FALSE, "file", {}, {path}, 0, 0, FALSE)
                        EXCEPT !.expected = expected]
  /\ UNCHANGED <<mcache, remote, shas, now, faults, besideStore>>

StoreNext ==
  \/ \E a \in Assets, failAt \in MetaFailPoints : MetaUpsert(a, failAt)
  \/ \E list \in RemoveLists, failAt \in MetaFailPoints, at \in 1..2 :
       MetaRemove(list, failAt, at)
  \/ MetaInvalidate
  \/ MetaLoad
  \/ DayPasses
  \/ ManifestLost
  \/ \E b \in 1..2 : OtherClientWrites(b)
  \/ \E content \in Contents, expected \in CallerShas :
       PutFile(determineRepoPath(1), content, expected)

(***************************************************************************)
(* Cloud cache (cloudCache.ts).  A tick of the clock is ten days, a unit   *)
(* of size 40 MiB.  disk[f] is the directory of fingerprint f:             *)
(*   manifest      manifest.json is there and readable                     *)
(*   preview       manifest.preview is set                                 *)
(*   original      manifest.original is set                                *)
(*   lastUsed      max(lastViewed, lastAccessed, the two updatedAt)        *)
(*   tag           manifest.tag (0: no manifest)                           *)
(*   previewFile   the preview file in the directory: the tag of the entry *)
(*                 it was built from (0: no file)                          *)
(*   originalFile  the original file in the directory, likewise            *)
(* withEntry and maybePruneRepo advance one await at a time.               *)
(***************************************************************************)
\* PRUNE_INTERVAL_MS (4 h), rounded up to a tick
PruneInterval == 1

\* ENTRY_MAX_AGE_MS (30 days)
EntryMaxAge == 3

\* ENTRY_MAX_AGE_WITH_ORIGINAL_MS (60 days)
EntryMaxAgeWithOriginal == 6

\* CACHE_SIZE_LIMIT_BYTES (400 MiB)
CacheSizeLimit == 10

\* the size of a preview file and of an original file
PreviewBytes == 1

OriginalBytes == 4

Fingerprints == 1..MaxEntries

Callers == 1..MaxCallers

\* the name under which the eviction pass stands in a lock chain
PassId == MaxCallers + 1

MapDrop(m, k) == [x \in (DOMAIN m) \ {k} |-> m[x]]

\* a directory left by an earlier session: a preview, perhaps an original
CachedEntry(original, lastUsed) ==
  [manifest |-> TRUE, preview |-> TRUE, original |-> original,
   lastUsed |-> lastUsed, tag |-> 1, previewFile |-> 1,
   originalFile |-> IF original THEN 1 ELSE 0]

\* makeDirectoryAsync(entryDir) of ensureEntryDir
NewEntryDir ==
  [manifest |-> FALSE, preview |-> FALSE, original |-> FALSE, lastUsed |-> 0,
   tag |-> 0, previewFile |-> 0, originalFile |-> 0]

\* fileSize: 0 for a missing file
fileSize(file, bytes) == IF file # 0 THEN bytes ELSE 0

\* entrySize of maybePruneRepo: the files the manifest names
EntrySize(e) ==
  (IF e.preview THEN fileSize(e.previewFile, PreviewBytes) ELSE 0)
  + (IF e.original THEN fileSize(e.originalFile, OriginalBytes) ELSE 0)

\* the bytes in a directory
DirBytes(e) ==
  fileSize(e.previewFile, PreviewBytes) + fileSize(e.originalFile, OriginalBytes)

RECURSIVE TotalBytes(_, _)
\* the bytes in the directories fps of the cache d
TotalBytes(d, fps) ==
  IF fps = {} THEN 0
  ELSE LET f == CHOOSE x \in fps : TRUE
       IN  DirBytes(d[f]) + TotalBytes(d, fps \ {f})

CachedBytes(d) == TotalBytes(d, DOMAIN d)

\* the loop of maybePruneRepo goes on while this is false
UnderBudget(currentSize) == currentSize <= CacheSizeLimit

UnderTarget(currentSize) == currentSize * 10 <= CacheSizeLimit * 8

\* maxAge of maybePruneRepo
MaxAgeOf(original) ==
  IF original THEN EntryMaxAgeWithOriginal ELSE EntryMaxAge

RECURSIVE InsertByLastUsed(_, _)
InsertByLastUsed(sorted, stat) ==
  IF sorted = << >> THEN <<stat>>
  ELSE IF sorted[Len(sorted)].lastUsed <= stat.lastUsed
       THEN Append(sorted, stat)
       ELSE Append(InsertByLastUsed(SubSeq(sorted, 1, Len(sorted) - 1), stat),
                   sorted[Len(sorted)])

RECURSIVE SortByLastUsed(_)
\* stats.sort((a, b) => a.lastUsed - b.lastUsed): a stable sort, entries of
\* equal lastUsed keep the order of the directory listing
SortByLastUsed(stats) ==
  IF stats = << >> THEN << >>
  ELSE InsertByLastUsed(SortByLastUsed(SubSeq(stats, 1, Len(stats) - 1)),
                        stats[Len(stats)])

\* readDirectoryAsync: the directories in an order the file system chooses
Listings(fps) ==
  {items \in [1..Cardinality(fps) -> fps] :
     \A i, j \in 1..Cardinality(fps) : i # j => items[i] # items[j]}

NoCacheManifest == [preview |-> FALSE, original |-> FALSE, lastUsed |-> 0]

IdleFetch ==
  [pc |-> "idle", fp |-> 0, kind |-> "none", tag |-> 0,
   manifest |-> NoCacheManifest, dirty |-> FALSE, served |-> 0]

\* before counts the bytes in the cache when the pass started, removed the
\* fingerprints removeEntry deleted, aged those of them it deleted for their
\* age, alone tells that no withEntry call held a lock during the pass (four
\* history fields).
IdlePass ==
  [pc |-> "idle", now |-> 0, items |-> << >>, i |-> 0, totalSize |-> 0,
   stats |-> << >>, j |-> 0, currentSize |-> 0, back |-> "none",
   before |-> 0, removed |-> {}, aged |-> {}, alone |-> TRUE]

\* the caches an earlier session can have left: previews used 50 or 10 days
\* ago, some with their original
EarlierCaches ==
  UNION {[fps -> {CachedEntry(o, t) : o \in BOOLEAN, t \in {2, 6}}] :
           fps \in SUBSET Fingerprints}

CacheIdle ==
  /\ disk = EmptyMap
  /\ entryLocks = [f \in Fingerprints |-> << >>]
  /\ repoPruneTracker = 0
  /\ fetches = [p \in Callers |-> IdleFetch]
  /\ pass = IdlePass
  /\ clock = FirstTick

\* what every step of the cache leaves alone
besideCache == <<queueVars, storeVars, utilVars, creationTime, now, assetsDb,
                 blocklistTable, uploadIndexCache, autoSyncBlocklist,
                 autoSyncBlocklistLoaded, syncStatus, lastCompletion,
                 activeCancelToken, metaReady, invalidations, mcache, remote,
                 pendingJobs, up, del, faults>>

InHandler(p) == fetches[p].pc \in {"handler", "finish"}

\* between the return of acquireLock and release(), on fingerprint f
HoldsLock(p, f) == InHandler(p) /\ fetches[p].fp = f

\* maybePruneRepo 441-447: the throttle
Throttled ==
  repoPruneTracker # 0 /\ clock - repoPruneTracker < PruneInterval

StartPass ==
  [IdlePass EXCEPT !.pc = "list", !.now = clock,
                   !.before = CachedBytes(disk),
                   !.alone = \A p \in Callers : ~InHandler(p)]

\* withEntry 120: the call enters maybePruneRepo, which returns at once
\* when throttled and else starts a pass the call waits for
Begin(p, f, kind, tag) ==
  /\ ops < MaxFetches
  /\ fetches[p].pc = "idle"
  /\ ops' = ops + 1
  /\ IF Throttled
     THEN /\ fetches' = [fetches EXCEPT ![p] =
                [IdleFetch EXCEPT !.pc = "acquire", !.fp = f, !.kind = kind,
                                  !.tag = tag]]
          /\ UNCHANGED <<pass, repoPruneTracker>>
     ELSE /\ fetches' = [fetches EXCEPT ![p] =
                [IdleFetch EXCEPT !.pc = "prune", !.fp = f, !.kind = kind,
                                  !.tag = tag]]
          /\ pass' = StartPass
          /\ repoPruneTracker' = clock
  /\ UNCHANGED <<disk, entryLocks, clock, besideCache>>

\* withEntry 121-122, acquireLock 227-232: the call joins the chain of its key
Acquire(p) ==
  /\ \/ fetches[p].pc = "acquire"
     \/ fetches[p].pc = "prune" /\ pass.pc = "idle"
  /\ entryLocks' = [entryLocks EXCEPT ![fetches[p].fp] = Append(@, p)]
  /\ fetches' = [fetches EXCEPT ![p].pc = "wait"]
  /\ UNCHANGED <<disk, repoPruneTracker, pass, clock, ops, besideCache>>

\* synchronizeManifest without the comparison: a manifest of another tag is
\* kept
synchronizeKept(dir, tag) == dir

\* synchronizeManifest 289-301 on the directory: a manifest of another tag
\* has the directory deleted and made again
synchronizeManifest(dir, tag) ==
  IF dir.manifest /\ dir.tag # tag THEN NewEntryDir ELSE dir

\* acquireLock 233 returns; withEntry 124-132: ensureEntryDir and
\* synchronizeManifest
Enter(p) ==
  LET f == fetches[p].fp
      dir == synchronizeManifest(
               IF f \in DOMAIN disk THEN disk[f] ELSE NewEntryDir,
               fetches[p].tag)
  IN  /\ fetches[p].pc = "wait"
      /\ entryLocks[f] # << >>
      /\ Head(entryLocks[f]) = p
      /\ disk' = MapPut(disk, f, dir)
      /\ fetches' = [fetches EXCEPT ![p] =
           [@ EXCEPT !.pc = "handler",
                     !.manifest =
                        IF dir.manifest
                        THEN [preview |-> dir.preview,
                              original |-> dir.original,
                              lastUsed |-> dir.lastUsed]
                        ELSE NoCacheManifest,
                     !.dirty = ~dir.manifest]]
      /\ pass' = IF pass.pc = "idle" THEN pass
                 ELSE [pass EXCEPT !.alone = FALSE]
      /\ UNCHANGED <<entryLocks, repoPruneTracker, clock, ops, besideCache>>

\* the finally of withEntry: release()
Release(p) ==
  /\ entryLocks' = [entryLocks EXCEPT ![fetches[p].fp] = Tail(@)]
  /\ fetches' = [fetches EXCEPT ![p] = IdleFetch]

\* the manifest after touchAccess / touchView, setPreview, setOriginal
Touched(m) == [m EXCEPT !.lastUsed = clock]

\* the handlers of ensurePreviewUri 30-47 and ensureOriginalUri 53-70:
\* a cached file is touched; else the file is downloaded and written into
\* the directory, which fails when the directory is gone
Handler(p) ==
  LET f == fetches[p].fp
      m == fetches[p].manifest
      there == f \in DOMAIN disk
      preview == fetches[p].kind = "preview"
      existing == /\ there
                  /\ IF preview THEN m.preview /\ disk[f].previewFile # 0
                                ELSE m.original /\ disk[f].originalFile # 0
  IN  /\ fetches[p].pc = "handler"
      /\ IF existing
         THEN /\ fetches' = [fetches EXCEPT ![p] =
                   [@ EXCEPT !.pc = "finish",
                             !.served = IF preview THEN disk[f].previewFile
                                        ELSE disk[f].originalFile,
                             !.manifest = IF clock > m.lastUsed
                                          THEN Touched(m) ELSE m,
                             !.dirty = @ \/ clock > m.lastUsed]]
              /\ UNCHANGED <<disk, entryLocks>>
         ELSE IF ~there
         THEN /\ Release(p)
              /\ UNCHANGED disk
         ELSE /\ disk' = [disk EXCEPT ![f] =
                   IF preview THEN [@ EXCEPT !.previewFile = fetches[p].tag]
                              ELSE [@ EXCEPT !.originalFile = fetches[p].tag]]
              /\ fetches' = [fetches EXCEPT ![p] =
                   [@ EXCEPT !.pc = "finish",
                             !.served = fetches[p].tag,
                             !.manifest =
                                IF preview
                                THEN [Touched(m) EXCEPT
                                        !.preview = TRUE,
                                        !.original =
                                           @ /\ disk[f].originalFile # 0]
                                ELSE [Touched(m) EXCEPT !.original = TRUE],
                             !.dirty = TRUE]]
              /\ UNCHANGED entryLocks
      /\ UNCHANGED <<repoPruneTracker, pass, clock, ops, besideCache>>

\* withEntry 190-196: writeManifest when dirty, which fails when the
\* directory is gone, then release()
Finish(p) ==
  LET f == fetches[p].fp
      m == fetches[p].manifest
  IN  /\ fetches[p].pc = "finish"
      /\ disk' = IF fetches[p].dirty /\ f \in DOMAIN disk
                 THEN [disk EXCEPT ![f] =
                         [@ EXCEPT !.manifest = TRUE,
                                   !.tag = fetches[p].tag,
                                   !.preview = m.preview,
                                   !.original = m.original,
                                   !.lastUsed = m.lastUsed]]
                 ELSE disk
      /\ Release(p)
      /\ UNCHANGED <<repoPruneTracker, pass, clock, ops, besideCache>>

\* maybePruneRepo 448-456: repoDirectory(repo, false), readDirectoryAsync
PassList ==
  /\ pass.pc = "list"
  /\ IF DOMAIN disk = {}
     THEN pass' = IdlePass
     ELSE \E items \in Listings(DOMAIN disk) :
            pass' = [pass EXCEPT !.pc = "scan", !.items = items, !.i = 1]
  /\ UNCHANGED <<disk, entryLocks, repoPruneTracker, fetches, clock, ops,
                 besideCache>>

\* what removeEntry is called with (fp and original are history fields:
\* the stat of the code holds the key and the path of the directory)
StatOf(f, e) ==
  [fp |-> f, size |-> EntrySize(e), lastUsed |-> e.lastUsed,
   original |-> e.original]

\* maybePruneRepo 459-478, one item: a directory without a readable manifest
\* is deleted on the spot; else the entry is measured, and removed when it
\* is older than its maximum age
PassScan ==
  /\ pass.pc = "scan"
  /\ pass.i <= Len(pass.items)
  /\ LET f == pass.items[pass.i]
     IN  IF f \notin DOMAIN disk \/ ~disk[f].manifest
         THEN /\ disk' = MapDrop(disk, f)
              /\ pass' = [pass EXCEPT !.i = @ + 1]
              /\ UNCHANGED entryLocks
         ELSE LET stat == StatOf(f, disk[f])
                  measured == [pass EXCEPT !.totalSize = @ + stat.size,
                                           !.stats = Append(@, stat)]
              IN  IF pass.now - stat.lastUsed > MaxAgeOf(disk[f].original)
                  THEN /\ pass' = [measured EXCEPT !.pc = "remove",
                                                   !.back = "scan"]
                       /\ entryLocks' = [entryLocks EXCEPT ![f] =
                                           Append(@, PassId)]
                       /\ UNCHANGED disk
                  ELSE /\ pass' = [measured EXCEPT !.i = @ + 1]
                       /\ UNCHANGED <<disk, entryLocks>>
  /\ UNCHANGED <<repoPruneTracker, fetches, clock, ops, besideCache>>

\* maybePruneRepo 479-483
PassSort ==
  /\ pass.pc = "scan"
  /\ pass.i > Len(pass.items)
  /\ pass' = IF UnderBudget(pass.totalSize)
             THEN IdlePass
             ELSE [pass EXCEPT !.pc = "evict",
                               !.stats = SortByLastUsed(@),
                               !.j = 1,
                               !.currentSize = pass.totalSize]
  /\ UNCHANGED <<disk, entryLocks, repoPruneTracker, fetches, clock, ops,
                 besideCache>>

\* maybePruneRepo 484-488, the head of the loop
PassEvict ==
  /\ pass.pc = "evict"
  /\ IF pass.j > Len(pass.stats) \/ UnderTarget(pass.currentSize)
     THEN /\ pass' = IdlePass
          /\ UNCHANGED entryLocks
     ELSE /\ pass' = [pass EXCEPT !.pc = "remove", !.back = "evict"]
          /\ entryLocks' = [entryLocks EXCEPT ![pass.stats[pass.j].fp] =
                              Append(@, PassId)]
  /\ UNCHANGED <<disk, repoPruneTracker, fetches, clock, ops, besideCache>>

\* the stat removeEntry was called with
Victim ==
  IF pass.back = "scan" THEN pass.stats[Len(pass.stats)]
  ELSE pass.stats[pass.j]

\* removeEntry 491-498 once the lock is granted, and the return to the loop
RemoveEntry ==
  /\ pass.pc = "remove"
  /\ entryLocks[Victim.fp] # << >>
  /\ Head(entryLocks[Victim.fp]) = PassId
  /\ disk' = MapDrop(disk, Victim.fp)
  /\ entryLocks' = [entryLocks EXCEPT ![Victim.fp] = Tail(@)]
  /\ pass' = IF pass.back = "scan"
             THEN [pass EXCEPT !.pc = "scan", !.i = @ + 1,
                               !.removed = @ \cup {Victim.fp},
                               !.aged = @ \cup {Victim.fp}]
             ELSE [pass EXCEPT !.pc = "evict", !.j = @ + 1,
                               !.currentSize = @ - Victim.size,
                               !.removed = @ \cup {Victim.fp}]
  /\ UNCHANGED <<repoPruneTracker, fetches, clock, ops, besideCache>>

\* time passes between two passes
Tick ==
  /\ clock < MaxTick
  /\ pass.pc = "idle"
  /\ clock' = clock + 1
  /\ UNCHANGED <<disk, entryLocks, repoPruneTracker, fetches, pass, ops,
                 besideCache>>

Tags == 1..MaxTags

\* the steps of the cache, the entries passed to it carrying one of tags
CacheStep(tags) ==
  \/ \E p \in Callers, f \in Fingerprints, kind \in {"preview", "original"},
        tag \in tags :
       Begin(p, f, kind, tag)
  \/ \E p \in Callers : Acquire(p)
  \/ \E p \in Callers : Enter(p)
  \/ \E p \in Callers : Handler(p)
  \/ \E p \in Callers : Finish(p)
  \/ PassList
  \/ PassScan
  \/ PassSort
  \/ PassEvict
  \/ RemoveEntry
  \/ Tick

\* the metadata entries do not change while the cache is used
CacheNext == CacheStep({1})

\* the entries are re-uploaded between two calls: their tag changes
TagNext == CacheStep(Tags)

(***************************************************************************)
(* Reconciliation (types.ts 1007-1019) on a repository that holds more     *)
(* entries than the preload target: photos are uploaded over several days, *)
(* the app is restarted, another device deletes entries, and               *)
(* verifyAndCleanUploadIndex runs.                                         *)
(***************************************************************************)
\* what a step of these runs leaves alone
besideVerify == <<queueVars, cacheVars, utilVars, shas, blobs, creationTime,
                  blocklistTable, autoSyncBlocklist, autoSyncBlocklistLoaded,
                  syncStatus, lastCompletion, activeCancelToken, invalidations,
                  pendingJobs, up, del, faults>>

VerifyCall(op, a) ==
  [NoCall EXCEPT !.op = op, !.asset = a, !.day = now]

\* the metadata of the branch holds an entry for fingerprint fp
RemoteHolds(r, fp) == \E b \in DOMAIN r.shards : fp \in DOMAIN r.shards[b]

\* uploadPreparedAsset (440-506) succeeding for asset a: the pending row,
\* the PUT, markUploaded, upsertMetaEntry
UploadedAsset(a) ==
  LET fp == makeFingerprint(a)
      row == AssetRow(a, TRUE, FALSE)
      res == upsertMetaEntry(mcache, remote, MetaEntryOf(a), "none")
  IN  /\ ops < MaxVerifyOps
      /\ fp \notin DOMAIN assetsDb
      /\ ops' = ops + 1
      /\ assetsDb' = markUploaded(saveAsset(assetsDb, fp,
                                            AssetRow(a, FALSE, FALSE)), fp)
      /\ uploadIndexCache' = updateIndexCacheForRecord(uploadIndexCache, fp, row)
      /\ mcache' = res.c
      /\ remote' = [res.r EXCEPT !.files = @ \cup {determineRepoPath(a)}]
      /\ call' = VerifyCall("uploaded", a)
      /\ UNCHANGED <<now, metaReady, besideVerify>>

\* uploadPreparedAsset failing at the PUT for asset a: the pending row gets
\* its error (recordFailure)
UploadFailed(a) ==
  LET fp == makeFingerprint(a)
      db == recordFailure(saveAsset(assetsDb, fp, AssetRow(a, FALSE, FALSE)), fp)
  IN  /\ ops < MaxVerifyOps
      /\ fp \notin DOMAIN assetsDb
      /\ ops' = ops + 1
      /\ assetsDb' = db
      /\ uploadIndexCache' = updateIndexCacheForRecord(uploadIndexCache, fp, db[fp])
      /\ call' = VerifyCall("failed", a)
      /\ UNCHANGED <<now, mcache, remote, metaReady, besideVerify>>

\* the app is closed and launched again: the module state is gone
Relaunch ==
  /\ ops < MaxVerifyOps
  /\ mcache.present
  /\ ops' = ops + 1
  /\ mcache' = NoCache
  /\ metaReady' = FALSE
  /\ uploadIndexCache' = EmptyMap
  /\ call' = VerifyCall("relaunch", 0)
  /\ UNCHANGED <<now, assetsDb, remote, besideVerify>>

\* another device deletes the photo of asset a: deleteRepoFile there
OtherDeviceDeletes(a) ==
  LET fp == makeFingerprint(a)
      res == removeMetaEntries(loadMetaIndex(NoCache, remote).c, remote,
                               <<fp>>, "none", 1)
  IN  /\ ops < MaxVerifyOps
      /\ RemoteHolds(remote, fp)
      /\ ops' = ops + 1
      /\ remote' = [res.r EXCEPT !.files = @ \ {determineRepoPath(a)}]
      /\ call' = VerifyCall("otherDelete", a)
      /\ UNCHANGED <<now, assetsDb, uploadIndexCache, mcache, metaReady,
                     besideVerify>>

\* the records the loop of verifyAndCleanUploadIndex (1013-1018) deletes
Orphans(db, c) == {fp \in DOMAIN db : db[fp].uploaded /\ fp \notin DOMAIN c.byFp}

\* rows and index entries without the fingerprints fps
WithoutFps(m, fps) == [fp \in (DOMAIN m) \ fps |-> m[fp]]

\* verifyAndCleanUploadIndex, the preload target being targetEntries
VerifyAndClean(targetEntries) ==
  LET loaded == IF metaReady THEN [c |-> mcache, r |-> remote]
                ELSE loadMetaIndexUpTo(mcache, remote, targetEntries)
      gone == Orphans(assetsDb, loaded.c)
  IN  /\ ops < MaxVerifyOps
      /\ ops' = ops + 1
      /\ mcache' = loaded.c
      /\ remote' = loaded.r
      /\ metaReady' = TRUE
      /\ assetsDb' = WithoutFps(assetsDb, gone)
      /\ uploadIndexCache' =
           WithoutFps(ensureUploadIndexCache(uploadIndexCache, assetsDb), gone)
      /\ call' = [VerifyCall("verify", 0) EXCEPT !.fps = gone]
      /\ UNCHANGED <<now, besideVerify>>

VerifyDayPasses ==
  /\ now < MaxDay
  /\ now' = now + 1
  /\ UNCHANGED <<assetsDb, uploadIndexCache, mcache, remote, metaReady, call,
                 ops, besideVerify>>

\* what the delete, the cloud gallery and the reset leave alone
besideReset == <<queueVars, utilVars, shas, blobs, creationTime, now, syncStatus,
                 lastCompletion, activeCancelToken, pendingJobs, up, del,
                 faults, entryLocks, repoPruneTracker, fetches, pass, clock>>

\* deleteRepoFile (types.ts 836-870) succeeding for the uploaded asset a:
\* the file and the meta entry are removed, the record is deleted, the
\* fingerprint is blocked
DeletedHere(a) ==
  LET fp == makeFingerprint(a)
      s0 == ensureMetaLoaded(mcache, remote)
      res == removeMetaEntries(s0.c, s0.r, <<fp>>, "none", 1)
  IN  /\ ops < MaxVerifyOps
      /\ fp \in DOMAIN assetsDb
      /\ assetsDb[fp].uploaded
      /\ HasMetaEntry(s0.c, fp)
      /\ ops' = ops + 1
      /\ mcache' = res.c
      /\ remote' = [res.r EXCEPT !.files = @ \ {determineRepoPath(a)}]
      /\ metaReady' = TRUE
      /\ assetsDb' = deleteAsset(assetsDb, fp)
      /\ uploadIndexCache' = removeFromIndexCache(uploadIndexCache, fp)
      /\ autoSyncBlocklist' = ensureAutoSyncBlocklist(autoSyncBlocklist) \cup {fp}
      /\ autoSyncBlocklistLoaded' = TRUE
      /\ blocklistTable' = blocklistTable \cup {fp}
      /\ invalidations' = invalidations + 1
      /\ call' = VerifyCall("deleted", a)
      /\ UNCHANGED <<disk, besideReset>>

\* the cloud gallery has shown the photo of asset a: ensurePreviewUri
\* (cloudCache.ts 28-49) left its preview in the cache of the repo
ViewedInCloud(a) ==
  /\ ops < MaxVerifyOps
  /\ HasMetaEntry(mcache, makeFingerprint(a))
  /\ a \notin DOMAIN disk
  /\ ops' = ops + 1
  /\ disk' = MapPut(disk, a, CachedEntry(FALSE, clock))
  /\ call' = VerifyCall("viewed", a)
  /\ UNCHANGED <<assetsDb, uploadIndexCache, mcache, remote, metaReady,
                 autoSyncBlocklist, autoSyncBlocklistLoaded, blocklistTable,
                 invalidations, besideReset>>

\* resetRepoAndCaches (types.ts 1021-1042): resetBranchToEmptyCommit, and
\* when it did not throw, clearCache
ResetRepoAndCaches(ok) ==
  /\ ops < MaxVerifyOps
  /\ ops' = ops + 1
  /\ call' = [VerifyCall("reset", 0) EXCEPT !.ok = ok]
  /\ IF ok
     THEN /\ remote' = EmptyRemote
          /\ assetsDb' = EmptyMap
          /\ blocklistTable' = {}
          /\ autoSyncBlocklist' = {}
          /\ autoSyncBlocklistLoaded' = FALSE
          /\ uploadIndexCache' = EmptyMap
          /\ mcache' = NoCache
          /\ metaReady' = FALSE
          /\ invalidations' = invalidations + 1
     ELSE UNCHANGED <<remote, assetsDb, blocklistTable, autoSyncBlocklist,
                      autoSyncBlocklistLoaded, uploadIndexCache, mcache,
                      metaReady, invalidations>>
  /\ UNCHANGED <<disk, besideReset>>

VerifyNext ==
  \/ \E a \in Assets : UploadedAsset(a)
  \/ \E a \in Assets : UploadFailed(a)
  \/ Relaunch
  \/ \E a \in Assets : OtherDeviceDeletes(a)
  \/ VerifyAndClean(SmallPreloadTarget)
  \/ VerifyDayPasses
  \/ \E a \in Assets : DeletedHere(a)
  \/ \E a \in Assets : ViewedInCloud(a)
  \/ \E ok \in BOOLEAN : ResetRepoAndCaches(ok)

(***************************************************************************)
(* Fingerprint and path derivation (utils.ts).  A string is a sequence of  *)
(* one-character strings, so that separators, digits and path segments     *)
(* are what the code sees.                                                 *)
(***************************************************************************)
UtilIdle ==
  /\ input = << >>
  /\ output = << >>
  /\ legacyDb = << >>
  /\ dbProc = << >>
  /\ listeners = << >>
  /\ emitLog = << >>
  /\ promises = << >>
  /\ loads = << >>

besideUtil == <<queueVars, syncVars, storeVars, cacheVars, promises, loads>>

Missing == -1            \* an undefined or null field of the asset

DecimalDigits == <<"0", "1", "2", "3", "4", "5", "6", "7", "8", "9">>

\* String(n) of a non-negative integer
RECURSIVE numberToString(_)
numberToString(n) ==
  IF n < 10 THEN <<DecimalDigits[n + 1]>>
  ELSE numberToString(n \div 10) \o <<DecimalDigits[(n % 10) + 1]>>

\* a ?? b
Coalesce(a, b) == IF a # Missing THEN a ELSE b

AssetPrefix == <<"a", "s", "s", "e", "t", "-">>

\* the three locals of makeFingerprint
fingerprintName(asset) ==
  IF asset.filename # << >> THEN asset.filename
  ELSE AssetPrefix \o numberToString(asset.id)
fingerprintCreatedAt(asset) ==
  Coalesce(asset.creationTime, Coalesce(asset.modificationTime, 0))
fingerprintFileSize(asset) == Coalesce(asset.fileSize, 0)

\* the template without its separators
joinBare(filename, createdAt, fsize) ==
  filename \o numberToString(createdAt) \o numberToString(fsize)

joinFingerprint(filename, createdAt, fsize) ==
  filename \o <<"|">> \o numberToString(createdAt) \o <<"|">>
           \o numberToString(fsize)

\* makeFingerprint, on the characters of its strings
makeFingerprintString(asset) ==
  joinFingerprint(fingerprintName(asset), fingerprintCreatedAt(asset),
                  fingerprintFileSize(asset))

MaxNameLen == 2
NameChars == {"a", "|", "1"}
RECURSIVE StringsUpTo(_, _)
StringsUpTo(chars, n) ==
  IF n = 0 THEN {<< >>}
  ELSE LET shorter == StringsUpTo(chars, n - 1)
       IN  shorter \cup {t \o <<c>> : t \in shorter, c \in chars}

DeviceAssets ==
  [filename : StringsUpTo(NameChars, MaxNameLen), id : {1, 2},
   creationTime : {Missing, 0, 2, 12}, modificationTime : {Missing, 2},
   fileSize : {Missing, 0, 2}]

\* Two assets of the device library.
FingerprintInit ==
  /\ input \in {<<a, b>> : a \in DeviceAssets, b \in DeviceAssets}
  /\ output = << >>
  /\ legacyDb = << >>
  /\ dbProc = << >>
  /\ listeners = << >>
  /\ emitLog = << >>

Fingerprinted ==
  /\ output = << >>
  /\ output' = <<makeFingerprintString(input[1]), makeFingerprintString(input[2])>>
  /\ UNCHANGED <<input, legacyDb, dbProc, listeners, emitLog, besideUtil>>

\* makeFingerprint is called again for the same assets (prepareAsset, then
\* getAssetSyncStatus)
FingerprintedAgain ==
  /\ output # << >>
  /\ Len(output) = 2
  /\ output' = output \o <<makeFingerprintString(input[1]), makeFingerprintString(input[2])>>
  /\ UNCHANGED <<input, legacyDb, dbProc, listeners, emitLog, besideUtil>>

FingerprintNext == Fingerprinted \/ FingerprintedAgain

\* ---- sanitizeFilename, buildFileSegment, normalizePath, determineRepoPath ----
ControlChars == {"\t", "\n"}                  \* of [\u0000-\u001F\u007F-\u009F]
SeparatorChars == {"\\", "/"}                 \* [\\/]
ReservedChars == {":", "*", "?", "<", ">", "|"}   \* of [:*?"<>|]
KeptChars == {"a", "1", ".", "_", " ", "-"}   \* of [a-zA-Z0-9._ -]

\* s.replace(/[set]/g, to)
replaceEach(s, set, to) ==
  [i \in DOMAIN s |-> IF s[i] \in set THEN to ELSE s[i]]

\* s.replace(/[set]/g, '')
removeEach(s, set) == SelectSeq(s, LAMBDA c : c \notin set)

\* s.replace(/[set]+/g, to): every maximal run becomes one `to`
RECURSIVE replaceRuns(_, _, _)
replaceRuns(s, set, to) ==
  IF s = << >> THEN << >>
  ELSE IF Head(s) \notin set THEN <<Head(s)>> \o replaceRuns(Tail(s), set, to)
  ELSE IF Len(s) > 1 /\ s[2] \in set THEN replaceRuns(Tail(s), set, to)
  ELSE <<to>> \o replaceRuns(Tail(s), set, to)

\* s.replace(/^c+/, '')
RECURSIVE stripLeading(_, _)
stripLeading(s, set) ==
  IF s # << >> /\ Head(s) \in set THEN stripLeading(Tail(s), set) ELSE s

\* s.replace(/c+$/, '')
RECURSIVE stripTrailing(_, _)
stripTrailing(s, set) ==
  IF s # << >> /\ s[Len(s)] \in set
  THEN stripTrailing(SubSeq(s, 1, Len(s) - 1), set) ELSE s

stripBoth(s, set) == stripTrailing(stripLeading(s, set), set)

\* the characters outside [a-zA-Z0-9._ -] that occur in s
otherChars(s) == {s[i] : i \in DOMAIN s} \ KeptChars

\* the replacements of sanitizeFilename, in their order (NFC changes none of
\* the characters considered)
sanitizeSteps(filename) ==
  LET s1 == removeEach(filename, ControlChars)
      s2 == replaceEach(s1, SeparatorChars, "-")
      s3 == replaceEach(s2, ReservedChars, "-")
      s4 == stripBoth(replaceRuns(s3, {" "}, " "), {" "})
      s5 == replaceRuns(s4, otherChars(s4), "-")
  IN  stripBoth(s5, {"-"})

sanitizeFilename(filename, fallback) ==
  LET next == sanitizeSteps(filename)
  IN  IF next = << >> \/ next = <<".">> \/ next = <<".", ".">>
      THEN fallback ELSE next

Unsorted == <<"U", "n", "s", "o", "r", "t", "e", "d">>

sanitizeFolderName(name) ==
  LET sanitized == sanitizeFilename(name, Unsorted)
  IN  IF sanitized # << >> THEN sanitized ELSE Unsorted

includes(s, c) == \E i \in DOMAIN s : s[i] = c

buildFileSegment(filename, fingerprint) ==
  LET original == IF stripBoth(removeEach(filename, ControlChars), {" "}) # << >>
                  THEN filename ELSE << >>
      sanitized == sanitizeFilename(original, AssetPrefix \o fingerprint)
  IN  IF includes(sanitized, ".") THEN sanitized
      ELSE sanitized \o <<".", "j", "p", "g">>

\* s.replace(/\/+/, '/'): only the first run, the pattern has no g flag
RECURSIVE replaceFirstRun(_, _, _)
replaceFirstRun(s, set, to) ==
  IF s = << >> THEN << >>
  ELSE IF Head(s) \notin set THEN <<Head(s)>> \o replaceFirstRun(Tail(s), set, to)
  ELSE <<to>> \o stripLeading(s, set)

normalizePath(path) ==
  replaceFirstRun(replaceEach(path, {"\\"}, "/"), {"/"}, "/")

ImagesRoot ==
  <<"g", "i", "t", "g", "a", "l", "l", "e", "r", "y", "/",
    "i", "m", "a", "g", "e", "s", "/">>

\* determineRepoPath, on the characters of its strings
determineRepoPathString(folderName, filename, fingerprint) ==
  normalizePath(ImagesRoot \o sanitizeFolderName(folderName) \o <<"/">>
                \o buildFileSegment(filename, fingerprint))

\* path.split('/')
RECURSIVE segmentsOf(_, _)
segmentsOf(path, seg) ==
  IF path = << >> THEN <<seg>>
  ELSE IF Head(path) = "/" THEN <<seg>> \o segmentsOf(Tail(path), << >>)
  ELSE segmentsOf(Tail(path), seg \o <<Head(path)>>)

MaxFileLen == 4
MaxFolderLen == 2
FileChars == {"a", ".", "\\", " "}
FolderChars == {"a", ".", "/", "\t", "|", "#"}

\* the fingerprints a path is asked for: the one prepareAsset computed from
\* the same file name, and one of another record
FingerprintsFor(filename) ==
  {joinFingerprint(IF filename # << >> THEN filename
                   ELSE AssetPrefix \o numberToString(1), 2, 0),
   <<"a", "|", "2", "|", "0">>}

PathInputs ==
  UNION {{[folderName |-> d, filename |-> f, fingerprint |-> p] :
            d \in StringsUpTo(FolderChars, MaxFolderLen),
            p \in FingerprintsFor(f)} :
         f \in StringsUpTo(FileChars, MaxFileLen)}

PathInit ==
  /\ input \in PathInputs
  /\ output = << >>
  /\ legacyDb = << >>
  /\ dbProc = << >>
  /\ listeners = << >>
  /\ emitLog = << >>

PathDetermined ==
  /\ output = << >>
  /\ output' = determineRepoPathString(input.folderName, input.filename,
                                      input.fingerprint)
  /\ UNCHANGED <<input, legacyDb, dbProc, listeners, emitLog, besideUtil>>

PathNext == PathDetermined


(***************************************************************************)
(* The local store's database and its legacy migration (part_004).  NULL   *)
(* is Missing; a legacy table that does not exist has no rows.  Values     *)
(* written by the old upload index are 1, values of the old meta table 2.  *)
(* Opening the file, the PRAGMA and CREATE TABLE IF NOT EXISTS are taken   *)
(* to succeed; every await of runLegacyMigration may fail.                 *)
(***************************************************************************)
LegacyFps == {1, 2}

UploadIndexRows ==
  [repo_path : {Missing, 1}, file_size : {Missing, 1},
   content_hash : {Missing, 1}, uploaded : {0, 1}]

MetaEntryRows ==
  [repo_path : {2}, file_size : {Missing, 2}, content_hash : {Missing, 2},
   preview_repo_path : {Missing, 2}]

\* the row saveAsset writes for a new pending upload
PendingRow ==
  [repo_path |-> 3, file_size |-> 3, content_hash |-> 3,
   preview_hash |-> Missing, uploaded |-> 0]

NoLegacyTables ==
  [tables |-> {}, upload_index |-> EmptyMap, meta_entries |-> EmptyMap,
   uploaded_fingerprints |-> {}]

\* what earlier versions of the app left in the file: rows of fingerprint 1
\* in the upload index, rows of fingerprints 1 and 2 in the meta table
LegacyFiles ==
  {[tables |-> t,
    upload_index |-> IF "upload_index" \in t THEN u ELSE EmptyMap,
    meta_entries |-> IF "meta_entries" \in t THEN m ELSE EmptyMap,
    uploaded_fingerprints |-> IF "uploaded_fingerprints" \in t THEN f ELSE {}] :
     t \in SUBSET {"upload_index", "meta_entries", "uploaded_fingerprints"},
     u \in {EmptyMap} \cup {(1 :> r) : r \in UploadIndexRows},
     m \in {EmptyMap, (2 :> [repo_path |-> 2, file_size |-> 2,
                             content_hash |-> Missing,
                             preview_repo_path |-> Missing])}
           \cup {(1 :> r) : r \in MetaEntryRows},
     f \in SUBSET LegacyFps}

ClosedDb ==
  [promise |-> "none", instance |-> FALSE, result |-> "none",
   failed |-> FALSE, outcome |-> "none", owed |-> FALSE]

MigrationInit ==
  /\ input = << >>
  /\ output = << >>
  /\ legacyDb \in {[flag |-> FALSE, assets |-> EmptyMap, legacy |-> l] :
                    l \in LegacyFiles}
  /\ dbProc = ClosedDb
  /\ listeners = << >>
  /\ emitLog = << >>

\* the awaits of runLegacyMigration, in program order
BeforeTransaction == {"flag", "count", "mark", "tables", "uploaded", "begin"}
InTransaction == {"upload_index", "meta_entries", "setflag", "drop", "commit"}
FailPoints == {"none"} \cup BeforeTransaction \cup InTransaction

\* uploadedFingerprintSet (lines 131-141)
uploadedFingerprintSet(l) == l.uploaded_fingerprints

\* the loop over upload_index (150-173): upsertAssetRow per row
foldUploadIndex(assets, l) ==
  [fp \in DOMAIN assets \cup DOMAIN l.upload_index |->
     IF fp \in DOMAIN l.upload_index
     THEN LET row == l.upload_index[fp]
          IN  [repo_path |-> row.repo_path, file_size |-> row.file_size,
               content_hash |-> row.content_hash, preview_hash |-> Missing,
               uploaded |-> IF row.uploaded = 1 THEN 1
                            ELSE IF fp \in uploadedFingerprintSet(l) THEN 1
                            ELSE 0]
     ELSE assets[fp]]

\* UPDATE assets SET f = COALESCE(?, f) with the meta row's values (190-201)
updateFromMeta(existing, row) ==
  [existing EXCEPT !.repo_path = Coalesce(row.repo_path, @),
                   !.file_size = Coalesce(row.file_size, @),
                   !.content_hash = Coalesce(row.content_hash, @),
                   !.preview_hash = Coalesce(row.preview_repo_path, @)]

\* the loop over meta_entries (176-219)
foldMetaEntries(assets, inserted, l) ==
  [fp \in DOMAIN assets \cup DOMAIN l.meta_entries |->
     IF fp \notin DOMAIN l.meta_entries THEN assets[fp]
     ELSE LET row == l.meta_entries[fp]
          IN  IF fp \in inserted THEN updateFromMeta(assets[fp], row)
              ELSE [repo_path |-> row.repo_path, file_size |-> row.file_size,
                    content_hash |-> row.content_hash,
                    preview_hash |-> row.preview_repo_path,
                    uploaded |-> IF fp \in uploadedFingerprintSet(l) THEN 1
                                 ELSE 0]]

\* the body of the transaction (148-241), committed
migrated(db) ==
  [flag |-> TRUE,
   assets |-> foldMetaEntries(foldUploadIndex(db.assets, db.legacy),
                              DOMAIN db.legacy.upload_index, db.legacy),
   legacy |-> NoLegacyTables]

\* whether the await named failAt is executed for this file
Reached(db, failAt) ==
  CASE failAt = "none" -> FALSE
    [] failAt = "flag" -> TRUE
    [] db.flag -> FALSE
    [] failAt = "count" -> TRUE
    [] failAt = "mark" -> db.assets # EmptyMap \/ db.legacy.tables = {}
    [] db.assets # EmptyMap -> FALSE
    [] failAt = "tables" -> TRUE
    [] db.legacy.tables = {} -> FALSE
    [] failAt = "uploaded" -> "uploaded_fingerprints" \in db.legacy.tables
    [] failAt = "upload_index" -> "upload_index" \in db.legacy.tables
    [] failAt = "meta_entries" -> "meta_entries" \in db.legacy.tables
    [] OTHER -> TRUE

\* runLegacyMigration: the file afterwards, whether the call threw, and how
\* it ended.  autoRollback: the failing statement ended the transaction
\* itself, so that the ROLLBACK of the catch clause fails in its turn.
runLegacyMigration(db, failAt, autoRollback) ==
  IF Reached(db, failAt)
  THEN IF failAt \in BeforeTransaction
       THEN [db |-> db, threw |-> TRUE, failed |-> TRUE, outcome |-> "threw"]
       ELSE [db |-> db, threw |-> autoRollback, failed |-> TRUE,
             outcome |-> "rolledback"]
  ELSE IF db.flag
  THEN [db |-> db, threw |-> FALSE, failed |-> FALSE, outcome |-> "done"]
  ELSE IF db.assets # EmptyMap \/ db.legacy.tables = {}
  THEN [db |-> [db EXCEPT !.flag = TRUE], threw |-> FALSE, failed |-> FALSE,
        outcome |-> "marked"]
  ELSE [db |-> migrated(db), threw |-> FALSE, failed |-> FALSE,
        outcome |-> "committed"]

\* openDatabase with neither dbInstance nor dbInitPromise
OpenDatabase(failAt, autoRollback) ==
  /\ dbProc.promise = "none"
  /\ LET r == runLegacyMigration(legacyDb, failAt, autoRollback)
     IN  /\ legacyDb' = r.db
         /\ dbProc' = [promise |-> IF r.threw THEN "rejected" ELSE "resolved",
                       instance |-> ~r.threw,
                       result |-> IF r.threw THEN "error" ELSE "ok",
                       failed |-> r.failed,
                       outcome |-> r.outcome,
                       \* history: a migration of legacy tables failed
                       \* and none has committed since
                       owed |-> IF r.failed
                                THEN dbProc.owed \/ (~legacyDb.flag /\
                                       legacyDb.legacy.tables # {})
                                ELSE IF r.outcome = "committed" THEN FALSE
                                ELSE dbProc.owed]
  /\ UNCHANGED <<input, output, listeners, emitLog, besideUtil>>

\* openDatabase when dbInstance or dbInitPromise is set (lines 52-53)
OpenDatabaseAgain ==
  /\ dbProc.promise # "none"
  /\ dbProc' = [dbProc EXCEPT
                  !.result = IF dbProc.promise = "resolved" THEN "ok" ELSE "error",
                  !.failed = FALSE, !.outcome = "none"]
  /\ UNCHANGED <<input, output, legacyDb, listeners, emitLog, besideUtil>>

\* saveAsset of a new record, in a session whose store opened
SaveRecord(fp) ==
  /\ dbProc.instance
  /\ fp \notin DOMAIN legacyDb.assets
  /\ legacyDb' = [legacyDb EXCEPT !.assets = MapPut(@, fp, PendingRow)]
  /\ dbProc' = [dbProc EXCEPT !.result = "ok", !.failed = FALSE,
                              !.outcome = "none"]
  /\ UNCHANGED <<input, output, listeners, emitLog, besideUtil>>

\* the app is stopped and launched again: the module variables are fresh
RestartApp ==
  /\ dbProc.promise # "none"
  /\ dbProc' = [ClosedDb EXCEPT !.owed = dbProc.owed]
  /\ UNCHANGED <<input, output, legacyDb, listeners, emitLog, besideUtil>>

MigrationNext ==
  \/ \E failAt \in FailPoints, autoRollback \in BOOLEAN :
       OpenDatabase(failAt, autoRollback)
  \/ OpenDatabaseAgain
  \/ \E fp \in LegacyFps : SaveRecord(fp)
  \/ RestartApp

(***************************************************************************)
(* The emitters (part_003): SimpleEmitter carries index-changed,           *)
(* status-changed and cache-invalidated, EventEmitter carries the          *)
(* completion of a batch (types.ts 83-86).  A callback is a function       *)
(* object; what it does when invoked is fixed.  A callback that leaves     *)
(* calls the unsubscribe function it was given.                            *)
(***************************************************************************)
MaxSubs == 3

Listeners == {1, 2, 3}
Behaviour == <<"returns", "throws", "leaves">>

NoListeners == [simple |-> << >>, event |-> << >>]

\* history: who subscribed and has not unsubscribed since, in registration
\* order, and the callbacks invoked by the last emit
NoEmits == [subscribed |-> NoListeners, emitter |-> "none", delivered |-> << >>]

EmitterInit ==
  /\ input = << >>
  /\ output = << >>
  /\ legacyDb = << >>
  /\ dbProc = << >>
  /\ listeners = NoListeners
  /\ emitLog = NoEmits

besideEmitter == <<input, output, legacyDb, dbProc, besideUtil>>

callbackOf(subs) == {subs[i].callback : i \in DOMAIN subs}
elementsOf(seq) == {seq[i] : i \in DOMAIN seq}

\* EventEmitter.off: a new array without the callback
off(subs, callback) == SelectSeq(subs, LAMBDA sub : sub.callback # callback)

\* Set.delete
deleteCallback(callbacks, callback) ==
  SelectSeq(callbacks, LAMBDA c : c # callback)

\* SimpleEmitter.subscribe: Set.add keeps one copy, in insertion order
SimpleSubscribe(c) ==
  /\ c \notin elementsOf(emitLog.subscribed.simple)
  /\ listeners' = [listeners EXCEPT
                     !.simple = IF c \in elementsOf(@) THEN @ ELSE Append(@, c)]
  /\ emitLog' = [emitLog EXCEPT !.subscribed.simple = Append(@, c),
                                !.emitter = "none", !.delivered = << >>]
  /\ UNCHANGED besideEmitter

\* EventEmitter.on and EventEmitter.once
EventSubscribe(c, once) ==
  /\ c \notin callbackOf(emitLog.subscribed.event)
  /\ Len(listeners.event) < MaxSubs
  /\ listeners' = [listeners EXCEPT
                     !.event = Append(@, [callback |-> c, once |-> once])]
  /\ emitLog' = [emitLog EXCEPT
                   !.subscribed.event = Append(@, [callback |-> c, once |-> once]),
                   !.emitter = "none", !.delivered = << >>]
  /\ UNCHANGED besideEmitter

\* the function returned by subscribe, called between two emits
SimpleUnsubscribe(c) ==
  /\ c \in elementsOf(emitLog.subscribed.simple)
  /\ listeners' = [listeners EXCEPT !.simple = deleteCallback(@, c)]
  /\ emitLog' = [emitLog EXCEPT !.subscribed.simple = deleteCallback(@, c),
                                !.emitter = "none", !.delivered = << >>]
  /\ UNCHANGED besideEmitter

\* the function returned by on / once, called between two emits
EventUnsubscribe(c) ==
  /\ c \in callbackOf(emitLog.subscribed.event)
  /\ listeners' = [listeners EXCEPT !.event = off(@, c)]
  /\ emitLog' = [emitLog EXCEPT !.subscribed.event = off(@, c),
                                !.emitter = "none", !.delivered = << >>]
  /\ UNCHANGED besideEmitter

\* the loop of SimpleEmitter.emit over Array.from(this.callbacks)
RECURSIVE simpleLoop(_, _, _, _)
simpleLoop(snapshot, i, callbacks, delivered) ==
  IF i > Len(snapshot) THEN [callbacks |-> callbacks, delivered |-> delivered]
  ELSE LET c == snapshot[i]
       IN  simpleLoop(snapshot, i + 1,
                      IF Behaviour[c] = "leaves" THEN deleteCallback(callbacks, c)
                      ELSE callbacks,
                      Append(delivered, c))

\* the loop of EventEmitter.emit over the array it read from the map; entry is
\* what the map holds for the event, replaced by every off
RECURSIVE eventLoop(_, _, _, _, _)
eventLoop(subs, i, entry, retained, delivered) ==
  IF i > Len(subs) THEN [entry |-> retained, delivered |-> delivered]
  ELSE LET sub == subs[i]
       IN  eventLoop(subs, i + 1,
                     IF Behaviour[sub.callback] = "leaves"
                     THEN off(entry, sub.callback) ELSE entry,
                     IF sub.once THEN retained ELSE Append(retained, sub),
                     Append(delivered, sub.callback))

SimpleEmit ==
  /\ LET r == simpleLoop(listeners.simple, 1, listeners.simple, << >>)
     IN  /\ listeners' = [listeners EXCEPT !.simple = r.callbacks]
         /\ emitLog' = [emitLog EXCEPT
                          !.subscribed.simple =
                             SelectSeq(@, LAMBDA c : Behaviour[c] # "leaves"),
                          !.emitter = "simple", !.delivered = r.delivered]
  /\ UNCHANGED besideEmitter

EventEmit ==
  /\ LET subs == listeners.event
         r == IF subs = << >> THEN [entry |-> subs, delivered |-> << >>]
              ELSE eventLoop(subs, 1, subs, << >>, << >>)
     IN  /\ listeners' = [listeners EXCEPT !.event = r.entry]
         /\ emitLog' = [emitLog EXCEPT
                          !.subscribed.event =
                             SelectSeq(@, LAMBDA sub :
                                ~sub.once /\ Behaviour[sub.callback] # "leaves"),
                          !.emitter = "event", !.delivered = r.delivered]
  /\ UNCHANGED besideEmitter

EmitterNext ==
  \/ \E c \in Listeners : SimpleSubscribe(c)
  \/ \E c \in Listeners, once \in BOOLEAN : EventSubscribe(c, once)
  \/ \E c \in Listeners : SimpleUnsubscribe(c)
  \/ \E c \in Listeners : EventUnsubscribe(c)
  \/ SimpleEmit
  \/ EventEmit

(***************************************************************************)
(* The lock map of the cloud cache (cloudCache.ts 226-243) as the promise  *)
(* chain it is.  promises is                                               *)
(*   entryLocks  key -> the call whose `current` the map holds (0: no key) *)
(*   calls       per acquireLock call: where it is (pc), its key, its      *)
(*               prior (0: Promise.resolve()), whether releaseResolver is  *)
(*               assigned, the released flag, whether `current` settled    *)
(*   jobs        the microtask queue                                       *)
(*   requested, granted   history: the calls in the order they were made   *)
(*               and in the order acquireLock returned                     *)
(*   threw       history: the calls whose handler threw                    *)
(*   again       history: release() calls made after the first             *)
(***************************************************************************)
\* acquireLock calls in a run
MaxCalls == 3

\* distinct lock keys (fingerprints of one repo) in a run
MaxKeys == 2

LockCalls == 1..MaxCalls

LockKeys == 1..MaxKeys

IdleCall ==
  [pc |-> "idle", key |-> 0, prior |-> 0, resolver |-> FALSE,
   released |-> FALSE, settled |-> FALSE]

LockInit ==
  promises = [entryLocks |-> [k \in LockKeys |-> 0],
              calls |-> [i \in LockCalls |-> IdleCall],
              jobs |-> << >>, requested |-> << >>, granted |-> << >>,
              threw |-> {}, again |-> 0]

\* everything but the lock map and its promises
besideLock == <<input, output, legacyDb, dbProc, listeners, emitLog, loads,
                queueVars, syncVars, storeVars, cacheVars>>

\* the promise a call chains on is settled: Promise.resolve(), or the
\* `current` of an earlier call after its release
PriorSettled(st, prior) == prior = 0 \/ st.calls[prior].settled

\* the reactions acquireLock registers on prior, in this order: the callback
\* of prior.then (229) and the pass-through of prior.catch (233)
Reactions(i) == <<<<"then", i>>, <<"catch", i>>>>

\* acquireLock 227-233 up to the await: prior is read from the map, current
\* is stored in the map, and the call waits for prior
AcquireLock(i, key) ==
  /\ promises.calls[i].pc = "idle"
  /\ promises' =
       [promises EXCEPT
          !.calls[i] = [IdleCall EXCEPT !.pc = "await", !.key = key,
                                        !.prior = promises.entryLocks[key]],
          !.entryLocks[key] = i,
          !.jobs = IF PriorSettled(promises, promises.entryLocks[key])
                   THEN @ \o Reactions(i) ELSE @,
          !.requested = Append(@, i)]
  /\ UNCHANGED besideLock

\* the calls chained on the `current` of call i, in the order they were made
RECURSIVE ChainedOn(_, _, _)
ChainedOn(st, i, k) ==
  IF k > Len(st.requested) THEN << >>
  ELSE IF st.calls[st.requested[k]].prior = i
            /\ st.calls[st.requested[k]].pc = "await"
       THEN Reactions(st.requested[k]) \o ChainedOn(st, i, k + 1)
       ELSE ChainedOn(st, i, k + 1)

\* one microtask:
\*   then    the callback of prior.then runs: the promise of 229 is made and
\*           releaseResolver assigned (230)
\*   catch   the promise of prior.catch is fulfilled, the await of 233
\*           resumes one microtask later
\*   resume  acquireLock returns the release function (235)
\*   settle  `current` of a released call is fulfilled, and the reactions
\*           registered on it are queued
RunJob ==
  /\ promises.jobs # << >>
  /\ LET kind == Head(promises.jobs)[1]
         i    == Head(promises.jobs)[2]
         rest == Tail(promises.jobs)
     IN  promises' =
           IF kind = "then"
           THEN [promises EXCEPT !.jobs = rest, !.calls[i].resolver = TRUE]
           ELSE IF kind = "catch"
           THEN [promises EXCEPT !.jobs = Append(rest, <<"resume", i>>)]
           ELSE IF kind = "resume"
           THEN [promises EXCEPT !.jobs = rest, !.calls[i].pc = "held",
                                 !.granted = Append(@, i)]
           ELSE [promises EXCEPT !.jobs = rest \o ChainedOn(promises, i, 1),
                                 !.calls[i].settled = TRUE]
  /\ UNCHANGED besideLock

\* release() deleting the key whoever holds the map entry
deleteAlways(locks, key, i) == [locks EXCEPT ![key] = 0]

\* release() 239-241: the key is deleted only while the map still holds the
\* `current` of this call
deleteOwn(locks, key, i) ==
  IF locks[key] = i THEN [locks EXCEPT ![key] = 0] ELSE locks

\* the function acquireLock returns (235-242)
release(st, i) ==
  IF st.calls[i].released THEN st
  ELSE [st EXCEPT
          !.calls[i].released = TRUE,
          !.jobs = IF st.calls[i].resolver THEN Append(@, <<"settle", i>>)
                   ELSE @,
          !.entryLocks = deleteOwn(@, st.calls[i].key, i)]

\* withEntry without its finally: release() only when the handler returned
releaseOnReturn(st, i, threw) == IF threw THEN st ELSE release(st, i)

\* withEntry 123-196: try { ... await handler(context) ... } finally
\* { release() }, whether the handler returned or threw
releaseFinally(st, i, threw) == release(st, i)

\* the body of withEntry ends: the handler returned, or it threw (every
\* download variant failed)
WithEntryEnds(i, threw) ==
  /\ promises.calls[i].pc = "held"
  /\ promises' =
       [releaseFinally(promises, i, threw) EXCEPT
          !.calls[i].pc = "ended",
          !.threw = IF threw THEN @ \cup {i} ELSE @]
  /\ UNCHANGED besideLock

\* the release function of a call that ended is called once more
ReleaseAgain(i) ==
  /\ promises.calls[i].pc = "ended"
  /\ promises.again < MaxCalls
  /\ promises' = [release(promises, i) EXCEPT !.again = @ + 1]
  /\ UNCHANGED besideLock

LockNext ==
  \/ \E i \in LockCalls, key \in LockKeys : AcquireLock(i, key)
  \/ RunJob
  \/ \E i \in LockCalls, threw \in BOOLEAN : WithEntryEnds(i, threw)
  \/ \E i \in LockCalls : ReleaseAgain(i)

(***************************************************************************)
(* Concurrent metadata loads (metaIndex.ts 514-567, 570-647).  loads is    *)
(*   cache      the module variable `cache`: 0 for null, else the call     *)
(*              that made the Cache object it holds                        *)
(*   index      the fingerprints in metaByFingerprint (one per shard file, *)
(*              named by its bucket)                                       *)
(*   calls      per loadMetaIndex call: where it is (pc), the Cache object *)
(*              ensureBaseState returned to it (state), the shard files it *)
(*              still has to read (files), what it has read (built), and   *)
(*              the buckets its preload still has to visit (todo)          *)
(*   objs       per Cache object: the buckets of its shards map, and those *)
(*              whose document is loaded                                   *)
(*   manifest, rows, shardFiles   the branch                               *)
(*   fetched, bootstrapped   history: fetchManifest calls, and accepted    *)
(*              writes of a new manifest                                   *)
(***************************************************************************)
\* loadMetaIndex calls in a run
MaxLoads == 2

\* shard files on the branch
MaxShardFiles == 2

Loaders == 1..MaxLoads

ShardFiles == 1..MaxShardFiles

IdleLoad ==
  [pc |-> "idle", state |-> 0, files |-> << >>, built |-> {}, todo |-> << >>]

NoObject == [known |-> {}, loaded |-> {}]

RECURSIVE Freshest(_)
\* sortBucketsByFreshness: the newest bucket first
Freshest(buckets) ==
  IF buckets = {} THEN << >>
  ELSE LET b == CHOOSE x \in buckets : \A y \in buckets : y <= x
       IN  <<b>> \o Freshest(buckets \ {b})

\* a branch with some shard files, with or without its manifest
LoadInit ==
  loads \in {[cache |-> 0, index |-> {},
              calls |-> [p \in Loaders |-> IdleLoad],
              objs |-> [p \in Loaders |-> NoObject],
              manifest |-> m, rows |-> IF m THEN files ELSE {},
              shardFiles |-> files, fetched |-> 0, bootstrapped |-> 0] :
               m \in BOOLEAN, files \in SUBSET ShardFiles}

\* everything but the loads
besideLoad == <<input, output, legacyDb, dbProc, listeners, emitLog, promises,
                queueVars, syncVars, storeVars, cacheVars>>

\* the call enters preloadRecentShards with the Cache object obj
StartPreload(load, obj, known) ==
  [load EXCEPT !.pc = "preload", !.state = obj, !.todo = Freshest(known)]

\* loadMetaIndex 643-644, ensureBaseState 514-525 up to its first await: the
\* cache is returned when there is one, else the reverse indices are cleared
\* and the manifest is requested
LoadMetaIndex(p) ==
  /\ loads.calls[p].pc = "idle"
  /\ loads' =
       IF loads.cache # 0
       THEN [loads EXCEPT !.calls[p] =
               StartPreload(@, loads.cache, loads.objs[loads.cache].known)]
       ELSE [loads EXCEPT !.index = {}, !.calls[p].pc = "fetch"]
  /\ UNCHANGED besideLoad

\* ensureBaseState 524-568 after fetchManifest: with a manifest the Cache
\* object is made from its rows and stored in `cache`; after a 404 the shard
\* files are listed (buildManifestFromExistingShards 476)
ManifestFetched(p) ==
  /\ loads.calls[p].pc = "fetch"
  /\ loads' =
       IF loads.manifest
       THEN [loads EXCEPT
               !.fetched = @ + 1,
               !.objs[p] = [known |-> loads.rows, loaded |-> {}],
               !.cache = p,
               !.calls[p] = StartPreload(@, p, loads.rows)]
       ELSE [loads EXCEPT
               !.fetched = @ + 1,
               !.calls[p].pc = "build",
               !.calls[p].files = Freshest(loads.shardFiles)]
  /\ UNCHANGED besideLoad

\* buildManifestFromExistingShards 484-509, one file: the document is
\* fetched and ingested
ShardRead(p) ==
  /\ loads.calls[p].pc = "build"
  /\ loads.calls[p].files # << >>
  /\ loads' = [loads EXCEPT
                 !.index = @ \cup {Head(loads.calls[p].files)},
                 !.calls[p].built = @ \cup {Head(loads.calls[p].files)},
                 !.calls[p].files = Tail(@)]
  /\ UNCHANGED besideLoad

\* ensureBaseState 541-545, 560-567: writeManifest(manifest, null), which
\* the API rejects when the file exists by now, then the Cache object is
\* stored in `cache`
BootstrapWrite(p) ==
  /\ loads.calls[p].pc = "build"
  /\ loads.calls[p].files = << >>
  /\ loads' =
       IF loads.manifest
       THEN [loads EXCEPT !.calls[p].pc = "rejected"]
       ELSE [loads EXCEPT
               !.manifest = TRUE,
               !.rows = loads.calls[p].built,
               !.bootstrapped = @ + 1,
               !.objs[p] = [known |-> loads.calls[p].built,
                            loaded |-> loads.calls[p].built],
               !.cache = p,
               !.calls[p] = StartPreload(@, p, loads.calls[p].built)]
  /\ UNCHANGED besideLoad

\* preloadRecentShards 603-617, one bucket of the object the call holds: a
\* shard not loaded there goes through ensureShardLoaded (570-601), which
\* works on the object `cache` holds now; a loaded one is ingested again
PreloadShard(p) ==
  /\ loads.calls[p].pc = "preload"
  /\ loads.calls[p].todo # << >>
  /\ LET b == Head(loads.calls[p].todo)
         mine == loads.objs[loads.calls[p].state]
         held == loads.objs[loads.cache]
     IN  loads' =
           IF b \in mine.loaded
           THEN [loads EXCEPT !.index = @ \cup {b},
                              !.calls[p].todo = Tail(@)]
           ELSE IF b \in held.loaded
           THEN [loads EXCEPT !.calls[p].todo = Tail(@)]
           ELSE [loads EXCEPT
                   !.index = IF b \in loads.shardFiles THEN @ \cup {b} ELSE @,
                   !.objs[loads.cache].known = @ \cup {b},
                   !.objs[loads.cache].loaded = @ \cup {b},
                   !.calls[p].todo = Tail(@)]
  /\ UNCHANGED besideLoad

\* loadMetaIndex 645: return state
LoadReturns(p) ==
  /\ loads.calls[p].pc = "preload"
  /\ loads.calls[p].todo = << >>
  /\ loads' = [loads EXCEPT !.calls[p].pc = "done"]
  /\ UNCHANGED besideLoad

LoadNext ==
  \/ \E p \in Loaders : LoadMetaIndex(p)
  \/ \E p \in Loaders : ManifestFetched(p)
  \/ \E p \in Loaders : ShardRead(p)
  \/ \E p \in Loaders : BootstrapWrite(p)
  \/ \E p \in Loaders : PreloadShard(p)
  \/ \E p \in Loaders : LoadReturns(p)

(***************************************************************************)
(* Lock keys and directories of the cloud cache (cloudCache.ts 74-84,      *)
(* 199-224, 249-269), on the characters of their strings, for one repo.    *)
(***************************************************************************)
\* longest file name of the assets whose entries are cached
MaxCachedNameLen == 2

CachedNameChars == {"a", "_", " "}

\* the characters of the model that /[^a-zA-Z0-9_\-\.]/ leaves alone
SegmentChars ==
  {"a", "o", "r", "m", "_", "-", ".", "0", "1", "2", "3", "4", "5", "6", "7",
   "8", "9"}

\* sanitizeSegment: value.replace(/[^a-zA-Z0-9_\-\.]/g, '_')
sanitizeSegment(value) ==
  [i \in DOMAIN value |-> IF value[i] \in SegmentChars THEN value[i] ELSE "_"]

\* repoKey of the repo o/r on branch m
repoKey ==
  sanitizeSegment(<<"o">>) \o <<"_", "_">> \o sanitizeSegment(<<"r">>)
    \o <<"_", "_">> \o sanitizeSegment(<<"m">>)

\* repoLockPrefix
repoLockPrefix == repoKey \o <<":", ":">>

\* entryLockKey: the fingerprint as it is
entryLockKey(fingerprint) == repoLockPrefix \o fingerprint

\* joinPath(ROOT_DIR, repoKey(repo))
repoDirectory == <<"cloud-cache", "/">> \o repoKey

\* ensureEntryDir: joinPath(repoDir, sanitizeSegment(fingerprint))
ensureEntryDir(fingerprint) ==
  repoDirectory \o <<"/">> \o sanitizeSegment(fingerprint)

\* the key purgeRepoCache locks before it deletes the repo directory
purgeLockKey == repoLockPrefix \o <<"_", "_", "p", "u", "r", "g", "e">>

\* the fingerprints of assets created at time 1 with size 0
CachedFingerprints ==
  {joinFingerprint(name, 1, 0) :
     name \in StringsUpTo(CachedNameChars, MaxCachedNameLen) \ {<< >>}}

EntryKeyInit ==
  /\ input \in [first : CachedFingerprints, second : CachedFingerprints]
  /\ output = << >>
  /\ legacyDb = << >>
  /\ dbProc = << >>
  /\ listeners = << >>
  /\ emitLog = << >>
  /\ promises = << >>
  /\ loads = << >>

\* withEntry 121-124 for two entries, and purgeRepoCache 75-80: the lock
\* each takes and the directory each works on
EntriesResolved ==
  /\ output = << >>
  /\ output' = [keys |-> <<entryLockKey(input.first), entryLockKey(input.second)>>,
                dirs |-> <<ensureEntryDir(input.first), ensureEntryDir(input.second)>>,
                purgeKey |-> purgeLockKey,
                purgeDir |-> repoDirectory]
  /\ UNCHANGED <<input, legacyDb, dbProc, listeners, emitLog, besideUtil>>

EntryKeyNext == EntriesResolved

(***************************************************************************)
(* Specifications.                                                         *)
(***************************************************************************)
\* the queue on its own, driven by arbitrary jobs
InitQueue ==
  /\ QueueInit
  /\ UtilIdle
  /\ StoreIdle
  /\ CacheIdle
  /\ creationTime = [a \in Assets |-> 0]
  /\ SyncIdle
  /\ assetsDb = EmptyMap
  /\ blocklistTable = {}
  /\ remote = EmptyRemote

SpecQueue == InitQueue /\ [][QueueNext]_vars

\* promise reactions are microtasks: once a promise has settled, the
\* callbacks registered on it run.  Nothing forces a job to settle.
FairSpecQueue ==
  /\ SpecQueue
  /\ \A k \in 1..MaxJobs :
       /\ WF_vars(ThenCallback(k))
       /\ WF_vars(CatchCallback(k))
       /\ WF_vars(FinallyCallback(k))

\* the sync orchestrator: upload batches handed to the queue one after the
\* other, user deletes and cancels beside them
InitSync == SyncInit /\ QueueInit /\ StoreIdle /\ CacheIdle /\ UtilIdle

SpecSync == InitSync /\ [][SyncNext]_vars

SpecAutoDelete == InitSync /\ [][AutoDeleteNext]_vars

\* the photos of the store's runs: the first taken on day 1, the others
\* without a creation time
StoreLibrary == [a \in Assets |-> IF a = 1 THEN 1 ELSE 0]

\* the metadata store of a freshly launched app on an empty branch
InitStore ==
  /\ QueueInit
  /\ UtilIdle
  /\ SyncIdle
  /\ StoreIdle
  /\ CacheIdle
  /\ creationTime = StoreLibrary
  /\ assetsDb = EmptyMap
  /\ blocklistTable = {}
  /\ remote = EmptyRemote

SpecStore == InitStore /\ [][StoreNext]_vars

\* the cloud cache of a freshly launched app, over what an earlier session
\* left in the cache directory
InitCache ==
  /\ QueueInit
  /\ UtilIdle
  /\ SyncIdle
  /\ StoreIdle
  /\ creationTime = StoreLibrary
  /\ assetsDb = EmptyMap
  /\ blocklistTable = {}
  /\ remote = EmptyRemote
  /\ disk \in EarlierCaches
  /\ entryLocks = [f \in Fingerprints |-> << >>]
  /\ repoPruneTracker = 0
  /\ fetches = [p \in Callers |-> IdleFetch]
  /\ pass = IdlePass
  /\ clock = FirstTick

SpecCache == InitCache /\ [][CacheNext]_vars

\* the caches the runs with changing tags start from: one entry, and three
\* entries over the budget
TagCaches ==
  {(1 :> CachedEntry(TRUE, 6)),
   [f \in Fingerprints |-> CachedEntry(f # 1, IF f = 2 THEN 2 ELSE 6)]}

InitTag ==
  /\ QueueInit
  /\ UtilIdle
  /\ SyncIdle
  /\ StoreIdle
  /\ creationTime = StoreLibrary
  /\ assetsDb = EmptyMap
  /\ blocklistTable = {}
  /\ remote = EmptyRemote
  /\ disk \in TagCaches
  /\ entryLocks = [f \in Fingerprints |-> << >>]
  /\ repoPruneTracker = 0
  /\ fetches = [p \in Callers |-> IdleFetch]
  /\ pass = IdlePass
  /\ clock = FirstTick

SpecTag == InitTag /\ [][TagNext]_vars

\* reconciliation on a branch that holds more entries than the preload
\* target, starting from a fresh app on an empty branch
SpecVerify == InitStore /\ [][VerifyNext]_vars

\* the parts of the app that the pure functions, the local store's migration
\* and the emitters do not touch
AppIdle ==
  /\ QueueInit
  /\ SyncIdle
  /\ StoreIdle
  /\ CacheIdle
  /\ creationTime = StoreLibrary
  /\ assetsDb = EmptyMap
  /\ blocklistTable = {}
  /\ remote = EmptyRemote

\* no acquireLock call and no metadata load was made
AsyncIdle == promises = << >> /\ loads = << >>

InitFingerprint == AppIdle /\ AsyncIdle /\ FingerprintInit

SpecFingerprint == InitFingerprint /\ [][FingerprintNext]_vars

InitPath == AppIdle /\ AsyncIdle /\ PathInit

SpecPath == InitPath /\ [][PathNext]_vars

InitMigration == AppIdle /\ AsyncIdle /\ MigrationInit

SpecMigration == InitMigration /\ [][MigrationNext]_vars

InitEmitter == AppIdle /\ AsyncIdle /\ EmitterInit

SpecEmitter == InitEmitter /\ [][EmitterNext]_vars

\* the lock keys and the directories of two cached entries of one repo
InitEntryKey == AppIdle /\ EntryKeyInit

SpecEntryKey == InitEntryKey /\ [][EntryKeyNext]_vars

\* the calls of acquireLock and release on their own: up to MaxCalls calls on
\* MaxKeys keys, handlers that return or throw
InitLock ==
  /\ AppIdle
  /\ LockInit
  /\ input = << >> /\ output = << >> /\ legacyDb = << >> /\ dbProc = << >>
  /\ listeners = << >> /\ emitLog = << >> /\ loads = << >>

\* loadMetaIndex calls that overlap, on a branch with or without a manifest
InitLoad ==
  /\ AppIdle
  /\ LoadInit
  /\ input = << >> /\ output = << >> /\ legacyDb = << >> /\ dbProc = << >>
  /\ listeners = << >> /\ emitLog = << >> /\ promises = << >>

SpecLoad == InitLoad /\ [][LoadNext]_vars

SpecLock == InitLock /\ [][LockNext]_vars

\* the event loop runs every queued microtask, and a handler ends: each
\* request it awaits settles
FairSpecLock ==
  /\ SpecLock
  /\ WF_vars(RunJob)
  /\ WF_vars(\E i \in LockCalls, threw \in BOOLEAN : WithEntryEnds(i, threw))


(***************************************************************************)
(* Properties of the job queue (SpecQueue, FairSpecQueue).                 *)
(***************************************************************************)
JobInvoked(k) == qjobs[k].phase \in {"running", "settled"}

\* C1: the executions of two jobs never overlap: at most one job function is
\* running, and a job's function has been invoked only if every job enqueued
\* before it has settled.
C1_JobsNeverOverlap ==
  /\ \A j, k \in 1..Len(qjobs) :
       (qjobs[j].phase = "running" /\ qjobs[k].phase = "running") => j = k
  /\ \A k \in 1..Len(qjobs) :
       JobInvoked(k) => \A j \in 1..(k - 1) : Settled(qjobs[j].wrapped)

\* job 2 runs after job 1 has rejected, job 3 waits behind it
C1_Witness ==
  /\ Len(qjobs) = 3
  /\ qjobs[1].wrapped = Rejected(1)
  /\ qjobs[2].phase = "running"
  /\ qjobs[3].phase = "queued"

\* C3: a rejecting job does not block the queue: the function of every job
\* is invoked (never skipped), the promise enqueue returned settles as the
\* job itself did and carries no other job's error, and a job whose
\* predecessors have all settled is eventually started.
C3_RejectionDoesNotBlock ==
  /\ [](\A k \in 1..Len(qjobs) :
          /\ qjobs[k].phase # "skipped"
          /\ Settled(qjobs[k].ret) => qjobs[k].ret = qjobs[k].wrapped
          /\ qjobs[k].ret.st = "rejected" => qjobs[k].ret.err = k)
  /\ \A k \in 1..MaxJobs :
       (k <= Len(qjobs) /\ \A j \in 1..(k - 1) : Settled(qjobs[j].wrapped))
         ~> (k <= Len(qjobs) /\ JobInvoked(k))

\* job 1 rejected, job 2 ran all the same and its caller saw it fulfilled
C3_Witness ==
  /\ Len(qjobs) >= 2
  /\ qjobs[1].ret = Rejected(1)
  /\ qjobs[2].phase = "settled"
  /\ qjobs[2].ret = Fulfilled

\* C4: jobs are started in exactly the order of the enqueue calls.
C4_StartedInEnqueueOrder ==
  startOrder = [i \in 1..Len(startOrder) |-> i]

\* three jobs started in order, the first two of them having failed
C4_Witness ==
  /\ startOrder = <<1, 2, 3>>
  /\ qjobs[1].wrapped = Rejected(1)
  /\ qjobs[2].wrapped = Rejected(2)

(***************************************************************************)
(* Properties of the sync orchestrator (SpecSync).                         *)
(***************************************************************************)
\* a step of deleteRepoFile
DeleteStep == del' # del

\* a step of the upload batch the queue is running
BatchStep == up' # up /\ del' = del /\ up'.id = up.id

\* C2: while an upload batch is between its start and its end, no delete
\* writes to the branch (media file, shard or manifest).
C2_NoDeleteWriteDuringBatch ==
  [][(DeleteStep /\ remote' # remote) => ~UpInFlight]_vars

\* C5: once a batch has seen its cancel token set, it writes nothing more to
\* the branch, starts no further asset, and goes on to its end.
C5_NoWriteAfterCancelObserved ==
  [][(up.cancelled /\ BatchStep) =>
       /\ remote' = remote
       /\ up'.writes = up.writes
       /\ up'.attempted = up.attempted
       /\ up'.pc \in {"finish", "done"}]_vars

\* a batch cancelled after its first asset, the remaining ones never started
C5_Witness ==
  /\ up.pc = "done"
  /\ up.cancelled
  /\ up.processed = 1
  /\ up.putFps # {}
  /\ Len(up.prepared) > 1

\* the step on which a batch ends cancelled
EndsCancelled ==
  /\ BatchStep
  /\ up.outcome # "cancelled"
  /\ up'.outcome = "cancelled"

\* C6 as stated: a cancelled batch leaves lastBatchUploaded equal to the
\* number of its items that were uploaded.
C6_CancelledCountsUploaded ==
  [][EndsCancelled =>
       syncStatus'.lastBatchUploaded =
         Cardinality(up'.attempted \ up'.failedFps)]_vars

\* C6 amended: a cancelled batch leaves lastBatchUploaded equal to the number
\* of its items whose upload was started before the cancel was seen, the
\* failed ones included.
C6_CancelledCountsStarted ==
  [][EndsCancelled =>
       syncStatus'.lastBatchUploaded = Cardinality(up'.attempted)]_vars

\* a batch cancelled after one failed and one uploaded asset
C6_Witness ==
  /\ up.pc = "done"
  /\ up.outcome = "cancelled"
  /\ up.processed = 2
  /\ up.failed = 1
  /\ syncStatus.lastBatchUploaded = 2
  /\ syncStatus.lastError = "Sync cancelled by user"

\* C7: a failure of one asset at the SHA fetch, the PUT, the mark-uploaded or
\* the meta upsert never makes the batch reject.
C7_AssetFailureNeverAborts ==
  up.failStep \in {"sha", "put", "mark", "upsert"} => up.pc # "rejected"

\* C8: an automatic sync never puts the file of an asset whose fingerprint
\* was on the blocklist when the sync was requested.
C8_AutoSyncSkipsBlocked ==
  up.source = "auto" => up.putFps \cap up.blockedAtCall = {}

\* C9: a batch puts no file for a fingerprint that was marked uploaded when
\* the batch prepared its assets.
C9_NoPutForUploaded == up.putFps \cap up.uploadedAtStart = {}

\* a batch of new, distinct, readable assets
NewDistinctBatch(u) ==
  /\ Len(u.assets) = Cardinality(SeqRange(u.assets))
  /\ FpsOf(u.assets) \subseteq u.newAtStart
  /\ u.unreadable = {}

\* the records, shard entries and manifest rows of the assets of a batch
UploadedAndIndexed ==
  \A a \in SeqRange(up.assets) :
    LET fp == makeFingerprint(a)
        b  == resolveBucket(MetaEntryOf(a))
    IN  /\ fp \in DOMAIN assetsDb
        /\ assetsDb[fp].uploaded
        /\ b \in DOMAIN remote.shards
        /\ fp \in DOMAIN remote.shards[b]
        /\ remote.shards[b][fp].repoPath = determineRepoPath(a)
        /\ remote.manifest.exists
        /\ b \in DOMAIN remote.manifest.shards
        /\ remote.manifest.shards[b] = Cardinality(DOMAIN remote.shards[b])

\* C10: when a batch of N new, distinct assets completes without failure
\* (and no delete ran beside it), each asset has a local record marked
\* uploaded and an entry in the shard of its date bucket, and the manifest
\* row of that bucket counts the entries of the shard.
C10_BatchUploadsAndIndexes ==
  [][(/\ BatchStep
      /\ up'.pc = "done"
      /\ up'.outcome = "completed"
      /\ up'.failed = 0
      /\ ~up'.disturbed
      /\ NewDistinctBatch(up'))
     => /\ up'.processed = Len(up'.assets)
        /\ UploadedAndIndexed']_vars

\* three new photos of day 1 uploaded: one bucket, three entries, count 3
C10_Witness ==
  /\ up.pc = "done"
  /\ up.outcome = "completed"
  /\ up.failed = 0
  /\ ~up.disturbed
  /\ NewDistinctBatch(up)
  /\ Len(up.assets) = 3
  /\ \A a \in Assets : creationTime[a] = 1
  /\ DOMAIN remote.shards = {1}
  /\ Cardinality(DOMAIN remote.shards[1]) = 3
  /\ remote.manifest.shards[1] = 3
  /\ \A a \in Assets : assetsDb[makeFingerprint(a)].uploaded

\* the step on which a deleteRepoFile call returns without an error
DeleteReturns ==
  /\ del.pc # "idle"
  /\ del'.pc = "idle"
  /\ lastCompletion'.type = "delete"
  /\ lastCompletion'.failed = 0

\* the delete ran with no upload batch beside it
DeleteAlone == del.batch = up'.id /\ ~UpInFlight'

\* the entry, the record and the blocklist after a delete
DeletedEverywhere ==
  /\ del.pc = "block"
  /\ \A b \in DOMAIN remote'.shards : del.fp \notin DOMAIN remote'.shards[b]
  /\ ~HasMetaEntry(mcache', del.fp)
  /\ ~HasMetaEntry(mcache', del.path)
  /\ remote'.manifest.exists
  /\ ManifestCount(remote'.manifest.shards, del.bucket) = del.count0 - 1
  /\ ManifestCount(mcache'.manifest, del.bucket) = del.count0 - 1
  /\ del.fp \notin DOMAIN assetsDb'
  /\ del.fp \in autoSyncBlocklist'
  /\ invalidations' = invalidations + 1

\* C11: when deleteRepoFile(path) returns for a file that has a meta entry
\* (no upload batch running beside it), the entry has left its shard, the
\* manifest count of its bucket is one less than before, the local record of
\* the fingerprint is deleted, the fingerprint is on the blocklist and one
\* cache-invalidation event has been emitted.
C11_DeleteRemovesEverywhere ==
  [][(DeleteReturns /\ del.hadEntry /\ DeleteAlone) => DeletedEverywhere]_vars

(***************************************************************************)
(* Claims about the metadata store (SpecStore).                            *)
(***************************************************************************)
\* the step is a call of removeMetaEntries
RemoveCalled == ops' = ops + 1 /\ call'.op = "remove"

\* the step is a call of upsertMetaEntry
UpsertCalled == ops' = ops + 1 /\ call'.op = "upsert"

\* no manifest row, in memory or on the branch, has count 0, and no shard
\* file is empty
NoEmptyBucket ==
  /\ \A b \in DOMAIN mcache.manifest : mcache.manifest[b] # 0
  /\ \A b \in DOMAIN remote.manifest.shards : remote.manifest.shards[b] # 0
  /\ \A b \in DOMAIN remote.shards : DOMAIN remote.shards[b] # {}

\* C12: after a removeMetaEntries call that returns, whatever the list of
\* fingerprints, no bucket of the manifest has count 0 and no shard file is
\* empty, when that was so before the call.
C12_RemoveLeavesNoEmptyBucket ==
  [][(RemoveCalled /\ call'.ok /\ NoEmptyBucket) => NoEmptyBucket']_vars

\* getMetaEntryFromCache(key) returns an entry of one of the fingerprints
ResolvesTo(c, key, fps) ==
  HasMetaEntry(c, key) /\ getMetaEntryFromCache(c, key).fingerprint \in fps

\* C13: after a removeMetaEntries call that returns, no fingerprint passed to
\* it resolves via getMetaEntryFromCache, neither by fingerprint nor by one
\* of the repo paths it had.
C13_RemovedDoNotResolve ==
  (call.op = "remove" /\ call.ok) =>
    \A key \in call.fps \cup call.paths : ~ResolvesTo(mcache, key, call.fps)

\* the buckets with at least one live entry: in a shard file of the branch
\* or in a loaded shard of the cache
LiveBuckets ==
  {b \in DOMAIN remote.shards : DOMAIN remote.shards[b] # {}}
    \cup {b \in DOMAIN mcache.shards : ShardIsLoaded(mcache, b) /\ mcache.shards[b].count > 0}

\* the row of bucket b in a manifest (counts, and the sha of each row) is
\* there, counts the entries of the shard file and names its current version
RowAgrees(counts, rowShas, b) ==
  /\ b \in DOMAIN counts
  /\ b \in DOMAIN remote.shards
  /\ counts[b] = Cardinality(DOMAIN remote.shards[b])
  /\ ShaAt(rowShas, b) = RemoteShardSha(remote, b)

\* C14: after any sequence of upsertMetaEntry and removeMetaEntries calls
\* that returned (no rejected request, nobody else writing), every bucket
\* with a live entry has its row in the manifest, in memory and on the
\* branch, with the count of the shard's entries and the sha of the shard
\* file's last version; a loaded shard holds that version too.
C14_ManifestRowsAgree ==
  (call.clean /\ call.op \in {"upsert", "remove"}) =>
    \A b \in LiveBuckets :
      /\ RowAgrees(mcache.manifest, shas.rows, b)
      /\ RowAgrees(remote.manifest.shards, shas.file, b)
      /\ ShardIsLoaded(mcache, b) =>
           /\ mcache.shards[b].count = mcache.manifest[b]
           /\ ShaAt(shas.shards, b) = ShaAt(shas.rows, b)

\* a remove has left a shard with one entry beside another live shard
C14_Witness ==
  /\ call.clean /\ call.op = "remove"
  /\ Cardinality(LiveBuckets) = 2
  /\ \E b \in LiveBuckets : mcache.manifest[b] = 1 /\ ~ShardIsLoaded(mcache, b)

\* the cache after it was discarded and the shard of bucket b loaded afresh
FreshShard(s0, b) == ensureShardLoaded(s0.c, s0.r, b)

\* the entry the cache returns under e's fingerprint equals e in every field
\* but updatedAt
SameButUpdatedAt(c, e) ==
  /\ HasMetaEntry(c, e.fingerprint)
  /\ DOMAIN getMetaEntryFromCache(c, e.fingerprint) \ {"updatedAt"} = DOMAIN e
  /\ \A f \in DOMAIN e : getMetaEntryFromCache(c, e.fingerprint)[f] = e[f]

\* the entry handed to the last upsertMetaEntry
UpsertedEntry == [MetaEntryOf(call.asset) EXCEPT !.uploadedAt = call.day]

RowPerShardFile(counts) ==
  /\ DOMAIN counts = DOMAIN remote.shards
  /\ \A b \in DOMAIN counts : counts[b] = Cardinality(DOMAIN remote.shards[b])

\* C16: when manifest.json is absent on the branch, loading the metadata
\* store rebuilds a manifest with one row per existing shard file, each with
\* the number of entries of the file, and writes it back to the branch.
C16_BootstrapRebuildsManifest ==
  (call.op = "load" /\ call.boot) =>
    /\ remote.manifest.exists
    /\ RowPerShardFile(remote.manifest.shards)
    /\ RowPerShardFile(mcache.manifest)
    /\ \A b \in DOMAIN remote.shards : ShardIsLoaded(mcache, b)

\* a load that found two shard files and no manifest
C16_Witness ==
  /\ call.op = "load" /\ call.boot
  /\ Cardinality(DOMAIN remote.shards) = 2

\* the loaded shards whose known sha is not the sha of the file on the branch
StaleShards ==
  {b \in DOMAIN mcache.shards :
     ShardIsLoaded(mcache, b) /\ ShaAt(shas.shards, b) # RemoteShardSha(remote, b)}

\* the known sha of the manifest is not the sha of manifest.json on the branch
ManifestIsStale ==
  mcache.present /\ shas.manifest # RemoteManifestSha(remote, shas.file)

\* the step is putFile with a sha that is not the sha of the file
StalePutFile ==
  /\ ops' = ops + 1 /\ call'.op = "putFile"
  /\ call'.expected # NoSha
  /\ \E path \in call'.paths : call'.expected # fetchFileSha(path)

\* C17: a write made with an expected sha that is not the current version of
\* the remote file fails with a version conflict that reaches the caller and
\* leaves the remote content in place: putFile with a stale sha, and the
\* shard and manifest writes of upsertMetaEntry and removeMetaEntries.
C17_StaleWriteConflicts ==
  [][/\ StalePutFile =>
          ~call'.ok /\ call'.err = "VersionConflict" /\ blobs' = blobs
     /\ (UpsertCalled \/ RemoveCalled) =>
          /\ \A b \in StaleShards :
               RemoteShardSha(remote', b) = RemoteShardSha(remote, b)
          /\ ManifestIsStale => remote'.manifest = remote.manifest
     /\ (UpsertCalled /\ faults' = faults
           /\ (call'.bucket \in StaleShards \/ ManifestIsStale)) =>
          ~call'.ok /\ call'.err = "VersionConflict"]_vars

\* the second of two putFile calls on a path came with the sha the first one
\* had replaced: it failed and the first call's content is on the branch
C17_Witness ==
  /\ call.op = "putFile" /\ ~call.ok /\ call.err = "VersionConflict"
  /\ \E path \in call.paths :
       path \in DOMAIN blobs /\ call.expected # ShaOf(blobs[path])


(***************************************************************************)
(* Claims about the cloud cache (SpecCache).                               *)
(***************************************************************************)
\* a step deletes the directory of fingerprint f
DirDeleted(f) == f \in DOMAIN disk /\ f \notin DOMAIN disk'

\* C18: in every interleaving of ensurePreviewUri / ensureOriginalUri calls
\* with an eviction pass, the directory of an entry is never deleted while
\* a call on that fingerprint is between acquiring and releasing the lock
\* of its key.
C18_NoDeleteUnderLock ==
  [][\A f \in Fingerprints :
       DirDeleted(f) => \A p \in Callers : ~HoldsLock(p, f)]_vars

\* the step with which maybePruneRepo returns
PassEnds == pass.pc # "idle" /\ pass'.pc = "idle"

RemovedStats(ps) ==
  {ps.stats[k] : k \in {n \in 1..Len(ps.stats) : ps.stats[n].fp \in ps.removed}}

\* the stats of the entries the pass measured and left in place
KeptStats(ps) ==
  {ps.stats[k] : k \in {n \in 1..Len(ps.stats) : ps.stats[n].fp \notin ps.removed}}

\* C20: when an eviction pass returns having removed an entry with a cached
\* original, it has also removed every entry it measured that has no
\* original and the same last-use time.
C20_OriginalsOutliveEquals ==
  [][PassEnds =>
       \A x \in RemovedStats(pass) : \A y \in KeptStats(pass) :
         ~(x.original /\ ~y.original /\ x.lastUsed = y.lastUsed)]_vars

\* the files in the directory d that do not stem from an entry of tag t
OtherTagFiles(d, t) ==
  {file \in {d.previewFile, d.originalFile} : file # 0 /\ file # t}

VerifyCalled == ops' = ops + 1 /\ call'.op = "verify"

\* C22: after verifyAndCleanUploadIndex, a record marked uploaded has been
\* deleted only if the remote metadata holds no entry for its fingerprint,
\* it has been deleted if the remote metadata, read by this call into an
\* empty mirror, holds no entry for it, and records not marked uploaded are
\* unchanged.
C22_OrphansOnly ==
  [][VerifyCalled =>
       \A fp \in DOMAIN assetsDb :
         IF assetsDb[fp].uploaded
         THEN /\ fp \notin DOMAIN assetsDb' => ~RemoteHolds(remote', fp)
              /\ (~mcache.present /\ ~RemoteHolds(remote', fp))
                   => fp \notin DOMAIN assetsDb'
         ELSE fp \in DOMAIN assetsDb' /\ assetsDb'[fp] = assetsDb[fp]]_vars

\* the local state resetRepoAndCaches is to wipe
LocalState ==
  <<assetsDb, blocklistTable, autoSyncBlocklist, uploadIndexCache, mcache, disk>>

\* C23: after resetRepoAndCaches has succeeded, the branch is empty and the
\* local index, the blocklist (table and memory), the metadata mirror and
\* the content cache of the repo hold no entry; after it has failed, the
\* local state is as before.
C23_ResetWipesEverything ==
  [][(ops' = ops + 1 /\ call'.op = "reset") =>
       IF call'.ok
       THEN /\ remote' = EmptyRemote
            /\ assetsDb' = EmptyMap
            /\ blocklistTable' = {}
            /\ autoSyncBlocklist' = {}
            /\ mcache' = NoCache
            /\ DOMAIN disk' = {}
       ELSE LocalState' = LocalState]_vars


\* the triple (name, timestamp, size) that makeFingerprint reads
Triple(asset) ==
  <<fingerprintName(asset), fingerprintCreatedAt(asset),
    fingerprintFileSize(asset)>>

\* C24: makeFingerprint is deterministic and injective on (name, timestamp,
\* size): every computation for equal triples gives the same fingerprint, and
\* two triples that differ in a component give different fingerprints.
C24_FingerprintInjective ==
  output # << >> =>
    /\ (Triple(input[1]) = Triple(input[2])) <=> (output[1] = output[2])
    /\ Len(output) = 4 => output[3] = output[1] /\ output[4] = output[2]

\* a name that ends in a digit, next to the shorter name whose timestamp
\* starts with that digit, each computed twice
C24_Witness ==
  /\ Len(output) = 4
  /\ input[1].filename = <<"a", "1">>
  /\ input[2].filename = <<"a">>
  /\ input[1].creationTime = 2
  /\ input[2].creationTime = 12
  /\ input[1].fileSize = input[2].fileSize
  /\ Triple(input[1]) # Triple(input[2])


\* C25: for every folder name, file name and fingerprint, the path returned
\* by determineRepoPath has no '..' segment and no backslash, also when the
\* file name sanitizes to nothing (or to '.' or '..') and the fallback name
\* asset-<fingerprint> is used.
C25_NoParentSegment ==
  output # << >> =>
    /\ ~includes(output, "\\")
    /\ LET segments == segmentsOf(output, << >>)
       IN  \A i \in DOMAIN segments : segments[i] # <<".", ".">>


(***************************************************************************)
(* Claims about the legacy migration, the emitters and the upload batch.   *)
(***************************************************************************)
\* the fingerprints with a row in both legacy tables
InBoth(l) == DOMAIN l.upload_index \cap DOMAIN l.meta_entries

\* C26: in the legacy migration the upload-index rows take precedence: for a
\* fingerprint in both legacy tables the assets row keeps every non-null field
\* of the upload-index row, and the meta row fills only the fields that the
\* upload-index row left null.
C26_UploadIndexPrecedence ==
  [][(dbProc.promise = "none" /\ dbProc'.outcome = "committed") =>
       \A fp \in InBoth(legacyDb.legacy) :
         LET u == legacyDb.legacy.upload_index[fp]
             m == legacyDb.legacy.meta_entries[fp]
             row == legacyDb'.assets[fp]
         IN  /\ row.repo_path = Coalesce(u.repo_path, m.repo_path)
             /\ row.file_size = Coalesce(u.file_size, m.file_size)
             /\ row.content_hash = Coalesce(u.content_hash, m.content_hash)]_vars

\* C27: if a step of the legacy migration fails, the assets table, the legacy
\* tables and the flag are as before, the open succeeds, and the next open
\* that meets no failure migrates; once the flag is set an open changes
\* nothing.
C27_FailureLeavesRetry ==
  [][dbProc.promise = "none" /\ dbProc'.promise # "none" =>
       /\ dbProc'.failed =>
            /\ legacyDb' = legacyDb
            /\ dbProc'.result = "ok"
       /\ (dbProc.owed /\ ~dbProc'.failed) => dbProc'.outcome = "committed"
       /\ legacyDb.flag => legacyDb' = legacyDb]_vars


\* the callbacks subscribed to the emitter, in registration order
SubscribedTo(emitter) ==
  IF emitter = "simple" THEN emitLog.subscribed.simple
  ELSE [i \in DOMAIN emitLog.subscribed.event |->
          emitLog.subscribed.event[i].callback]

NewlyMarked ==
  {fp \in DOMAIN assetsDb' :
     assetsDb'[fp].uploaded /\ ~(fp \in DOMAIN assetsDb /\ assetsDb[fp].uploaded)}

\* the fingerprints that the step enters into a shard of the branch
NewlyIndexed ==
  {fp \in FpsOf(up.prepared) : RemoteHolds(remote', fp) /\ ~RemoteHolds(remote, fp)}

\* the asset the batch is working on
CurrentFps == IF up.i \in DOMAIN up.prepared THEN {CurFp(up)} ELSE {}

\* C29: the upload workflow keeps its order for each asset: the pending record
\* (uploaded = false) is written before the PUT, the record is marked uploaded
\* only after the PUT succeeded, and the meta entry is upserted only after the
\* record was marked; no record is marked and no meta entry written for an
\* asset whose PUT did not succeed.
C29_UploadStepsInOrder ==
  [][BatchStep =>
       /\ (up'.putFps # up.putFps) =>
            /\ up'.putFps \ up.putFps \subseteq up.savedFps
            /\ ~up.disturbed =>
                 \A fp \in up'.putFps \ up.putFps :
                   fp \in DOMAIN assetsDb /\ ~assetsDb[fp].uploaded
       /\ NewlyMarked \subseteq up.putFps
       /\ up'.markedFps \subseteq up'.putFps
       /\ NewlyIndexed \cap CurrentFps \subseteq up.markedFps
       /\ up'.upsertedFps \subseteq up'.markedFps]_vars

\* a batch in which the PUT of one asset was rejected and another asset went
\* through all its steps
C29_Witness ==
  /\ up.pc = "done"
  /\ up.failStep = "put"
  /\ up.failedFps # {}
  /\ up.upsertedFps # {}
  /\ up.failedFps \cap up.putFps = {}


\* the step on which processUploadBatch passes its candidates to
\* deleteAssetsAsync
RequestsDeletion == BatchStep /\ up.pc = "finish" /\ up'.pc = "done"

\* the assets of the batch whose upsertMetaEntry returned
WhollyUploaded(u) ==
  {a \in SeqRange(u.prepared) : makeFingerprint(a) \in u.upsertedFps}

\* C30: with auto-delete after sync on, the assets requested for deletion at
\* the end of a batch are exactly those whose whole upload (PUT, mark, meta
\* upsert) succeeded in the batch; an asset whose upload failed or was never
\* attempted is not requested, and nothing is requested before the end.
C30_AutoDeletesUploaded ==
  [][/\ BatchStep => (up'.requested # up.requested => RequestsDeletion)
     /\ (RequestsDeletion /\ up.autoDelete) =>
          /\ up'.requested = WhollyUploaded(up)
          /\ \A a \in up'.requested :
               LET fp == makeFingerprint(a)
               IN  /\ fp \in up.putFps \cap up.markedFps
                   /\ fp \in up.attempted \ up.failedFps
                   /\ ~up.disturbed =>
                        /\ fp \in DOMAIN assetsDb /\ assetsDb[fp].uploaded
                        /\ determineRepoPath(a) \in remote.files
                        /\ RemoteHolds(remote, fp)]_vars

\* a batch that ended with one asset requested for deletion and another one
\* failed
C30_Witness ==
  /\ up.pc = "done"
  /\ up.autoDelete
  /\ up.requested # {}
  /\ up.failedFps # {}
  /\ Len(up.prepared) > Cardinality(up.requested)

(***************************************************************************)
(* Claims about failures, locks, eviction and the reverse indices.         *)
(***************************************************************************)
\* the step is a call of upsertMetaEntry or removeMetaEntries in which a
\* request was rejected (persistShard, deleteShardFile or writeManifest),
\* after calls that all returned, with nobody else writing
WriteRejected ==
  /\ call.clean
  /\ ops' = ops + 1
  /\ call'.op \in {"upsert", "remove"}
  /\ call'.err = "RequestFailed"

\* every shard file of the branch has its row, with its count and its sha,
\* in the manifest in memory
MemoryManifestAgrees ==
  \A b \in DOMAIN remote.shards : RowAgrees(mcache.manifest, shas.rows, b)

\* ... and in the manifest on the branch
BranchManifestAgrees ==
  \A b \in DOMAIN remote.shards : RowAgrees(remote.manifest.shards, shas.file, b)

\* no fingerprint of the call is still indexed under a bucket whose shard,
\* in memory or on the branch, no longer holds it
NoStaleBucket ==
  \A fp \in call.fps :
    fp \in DOMAIN mcache.fpBucket =>
      \/ fp \in DOMAIN fetchShardDocument(remote, mcache.fpBucket[fp])
      \/ /\ ShardIsLoaded(mcache, mcache.fpBucket[fp])
         /\ fp \in DOMAIN mcache.shards[mcache.fpBucket[fp]].entries

\* C31: when a step of upsertMetaEntry or removeMetaEntries fails (shard
\* write, shard delete or manifest write), afterwards the manifest, in memory
\* and on the branch, still has for every shard file its count and sha,
\* and no fingerprint of the call is indexed under a bucket it was removed
\* from.
C31_FailureKeepsManifest ==
  [][WriteRejected =>
       (MemoryManifestAgrees' /\ BranchManifestAgrees' /\ NoStaleBucket')]_vars

\* the calls of a sequence that were made on key k, in the sequence's order
RECURSIVE OnKey(_, _)
OnKey(seq, k) ==
  IF seq = << >> THEN << >>
  ELSE IF promises.calls[Head(seq)].key = k
       THEN <<Head(seq)>> \o OnKey(Tail(seq), k)
       ELSE OnKey(Tail(seq), k)

IsPrefix(s, t) == Len(s) <= Len(t) /\ SubSeq(t, 1, Len(s)) = s

\* the calls between the return of acquireLock and release(), on key k
LockHolders(k) ==
  {i \in LockCalls : promises.calls[i].pc = "held" /\ promises.calls[i].key = k}

\* acquireLock has returned to call i
Granted(i) == promises.calls[i].pc \in {"held", "ended"}

\* C32: acquireLock grants each key to at most one holder at a time and to
\* waiters in request order; a call chained on an earlier one returns only
\* after that one has called release, and only a call of the same key can
\* keep a call waiting; calling release a second time changes nothing.
C32_LockExclusiveInOrder ==
  /\ [](\A k \in LockKeys :
          /\ Cardinality(LockHolders(k)) <= 1
          /\ IsPrefix(OnKey(promises.granted, k), OnKey(promises.requested, k)))
  /\ [](\A i \in LockCalls :
          /\ (Granted(i) /\ promises.calls[i].prior # 0) =>
               promises.calls[promises.calls[i].prior].released
          /\ (promises.calls[i].pc = "await" /\ promises.calls[i].prior # 0) =>
               promises.calls[promises.calls[i].prior].key = promises.calls[i].key
          /\ Granted(i) => promises.calls[i].resolver)
  /\ [][promises'.again # promises.again =>
          [promises' EXCEPT !.again = promises.again] = promises]_vars

\* three calls on one key were granted the lock one after the other while a
\* release function was called twice
C32_Witness ==
  /\ Len(promises.granted) = MaxCalls
  /\ \A i \in LockCalls : promises.calls[i].key = 1
  /\ promises.calls[3].prior # 0
  /\ promises.again > 0

\* C33: the lock is released on every exit path of withEntry: a call whose
\* handler threw has released its key, and every call waiting in acquireLock
\* is eventually granted the lock, whatever the handlers before it did.
C33_ReleasedOnEveryExit ==
  /\ [](\A i \in promises.threw : promises.calls[i].released)
  /\ \A i \in LockCalls :
       (promises.calls[i].pc = "await") ~> (promises.calls[i].pc = "held")

\* a call holds the lock of a key whose previous holder's handler threw
C33_Witness ==
  \E i \in LockCalls :
    /\ promises.calls[i].pc = "held"
    /\ promises.calls[i].prior \in promises.threw

RECURSIVE SurvivorBytes(_, _)
\* the measured bytes of the entries the age pass left in place
SurvivorBytes(ps, k) ==
  IF k > Len(ps.stats) THEN 0
  ELSE (IF ps.stats[k].fp \in ps.aged THEN 0 ELSE ps.stats[k].size)
         + SurvivorBytes(ps, k + 1)

\* the step is removeEntry deleting, in the size loop, an entry that the age
\* pass had left in place
EvictsSurvivor ==
  /\ pass.pc = "remove" /\ pass.back = "evict"
  /\ pass'.pc = "evict"
  /\ Victim.fp \notin pass.aged

\* the entries the size loop has not reached yet
StatsAhead == {pass.stats[k] : k \in (pass.j + 1)..Len(pass.stats)}

\* C34: the size loop removes an entry that survived the age pass only if
\* the survivors together exceed the byte budget; it takes the entries
\* oldest first by last-use time, and never removes one when the running
\* total is at or below 80% of the budget.
C34_EvictsOnlyOverBudget ==
  [][EvictsSurvivor =>
       /\ ~UnderBudget(SurvivorBytes(pass, 1))
       /\ \A s \in StatsAhead : Victim.lastUsed <= s.lastUsed
       /\ ~UnderTarget(pass.currentSize)]_vars

\* C35: a callback whose unsubscribe function has been called, between two
\* emits or from inside a callback during an emit, is not invoked by a later
\* emit: an emit invokes only callbacks that are subscribed when it starts.
C35_UnsubscribedNotInvoked ==
  [][emitLog'.emitter # "none" =>
       elementsOf(emitLog'.delivered)
         \subseteq elementsOf(SubscribedTo(emitLog'.emitter))]_vars

\* no upload batch is running or waiting in the queue, and no deleteRepoFile
\* call is in progress
NoSyncInFlight == ~UpInFlight /\ pendingJobs = << >> /\ del.pc = "idle"

\* C36: whenever no sync operation is in flight, syncStatus.running is false
\* and the active cancel token is cleared, whichever way the last
\* processUploadBatch ended.
C36_IdleMeansNotRunning ==
  NoSyncInFlight => (~syncStatus.running /\ activeCancelToken = 0)

\* the loadMetaIndex calls that have returned
Loaded == {p \in Loaders : loads.calls[p].pc = "done"}

\* C37: loads started while no cache exists end up with one Cache object,
\* the one the module holds; the manifest is fetched at most once and
\* bootstrapped at most once; and no step of a load removes a fingerprint
\* another load has put into the reverse indices.
C37_ConcurrentLoadsShareCache ==
  /\ [](\A p \in Loaded : loads.calls[p].state = loads.cache)
  /\ [](loads.fetched <= 1 /\ loads.bootstrapped <= 1)
  /\ [][loads.index \subseteq loads'.index]_vars

\* the shard files of the branch that hold an entry of the fingerprint
ShardsHolding(r, fp) == {b \in DOMAIN r.shards : fp \in DOMAIN r.shards[b]}

\* every fingerprint is in at most one shard file, and every entry of a shard
\* file resolves to the bucket of that file
OneShardEach ==
  \A b \in DOMAIN remote.shards : \A fp \in DOMAIN remote.shards[b] :
    /\ ShardsHolding(remote, fp) = {b}
    /\ resolveBucket(remote.shards[b][fp]) = b

\* C38: an upsertMetaEntry call that returns leaves each fingerprint in at
\* most one shard document, the one of the bucket its entry resolves to,
\* when that was so before the call (so it is after any sequence of them).
C38_OneShardPerFingerprint ==
  [][(UpsertCalled /\ call'.ok /\ call.clean /\ OneShardEach)
       => OneShardEach']_vars

\* the buckets whose set in bucketToFingerprints holds the fingerprint
BucketsListing(c, fp) ==
  {b \in DOMAIN c.bucketFps : fp \in c.bucketFps[b]}

\* the fingerprints of all three indices
IndexedFps(c) ==
  DOMAIN c.byFp \cup DOMAIN c.fpBucket \cup UNION {c.bucketFps[b] : b \in DOMAIN c.bucketFps}

\* metaByFingerprint, fingerprintToBucket and bucketToFingerprints agree
FingerprintIndicesAgree(c) ==
  \A fp \in IndexedFps(c) :
    /\ fp \in DOMAIN c.byFp
    /\ fp \in DOMAIN c.fpBucket
    /\ BucketsListing(c, fp) = {c.fpBucket[fp]}

\* pathToFingerprint maps a path only to a fingerprint whose cached entry
\* has that path
PathIndexAgrees(c) ==
  \A path \in DOMAIN c.pathFp :
    /\ c.pathFp[path] \in DOMAIN c.byFp
    /\ c.byFp[c.pathFp[path]].repoPath = path

\* C39: in every reachable state of the metadata store a fingerprint is a key
\* of metaByFingerprint iff it is a key of fingerprintToBucket iff it is in
\* bucketToFingerprints of exactly that bucket, and pathToFingerprint maps a
\* path to a fingerprint only if that fingerprint's cached entry has the path.
C39_ReverseIndicesAgree ==
  FingerprintIndicesAgree(mcache) /\ PathIndexAgrees(mcache)

\* C40: two entries worked on in the same directory are locked under the
\* same key, that is, distinct fingerprints of one repo have distinct cache
\* directories; and an operation that works on a directory holding an
\* entry's directory holds that entry's lock.
C40_SameDirectorySameLock ==
  output # << >> =>
    /\ output.dirs[1] = output.dirs[2] => output.keys[1] = output.keys[2]
    /\ \A i \in 1..2 :
         IsPrefix(output.purgeDir, output.dirs[i]) => output.purgeKey = output.keys[i]

====
